---------------------------- MODULE Spec2Model ----------------------------
(***************************************************************************)
(* A model of the DWH storage layer of fyesgo/core (insonmnia/dwh/sql.go,  *)
(* insonmnia/dwh/postgres.go) and of the numeric-string helpers of the     *)
(* util package it relies on.                                              *)
(*                                                                         *)
(* Big integers are records [neg, mag] with mag the canonical sequence of  *)
(* decimal digits, most significant first; strings are sequences of byte   *)
(* codes, compared bytewise as Go compares strings.                        *)
(***************************************************************************)
EXTENDS Integers, Sequences, FiniteSets, TLC

VARIABLES
    pad,                \* the operands and results of the padding run
    orders,             \* table Orders: Id -> row
    deals,              \* table Deals: Id -> row
    dealConditions,     \* table DealConditions: set of rows
    dealChangeRequests, \* table DealChangeRequests: Id -> row
    dealPayments,       \* table DealPayments: set of rows
    profiles,           \* table Profiles: set of rows
    validators,         \* table Validators: set of rows
    workers,            \* table Workers: set of rows
    blacklists,         \* table Blacklists: set of rows
    seqs,               \* the BIGSERIAL sequences of the tables that have one
    staleIDs,           \* table StaleIDs: the Id of each row, no key
    misc,               \* table Misc: set of rows
    dwh,                \* the DWH: its mutex, its storage and the setup calls
    reply,              \* what the last operation returned
    sent                \* the entity handed to the last successful insert

vars == <<pad, orders, deals, dealConditions, dealChangeRequests, dealPayments,
          profiles, validators, workers, blacklists, seqs, staleIDs, misc, dwh,
          reply, sent>>

tables == <<orders, deals, dealConditions, dealChangeRequests, dealPayments,
            profiles, validators, workers, blacklists, seqs>>

others == <<staleIDs, misc, dwh>>

-----------------------------------------------------------------------------
(* Bytes and strings *)

ChMinus == 45
ChZero == 48
ChNine == 57

IsDigitCh(c) == c >= ChZero /\ c <= ChNine

Min(a, b) == IF a <= b THEN a ELSE b

Max(a, b) == IF a >= b THEN a ELSE b

\* Go's s < t on strings: bytewise, a proper prefix is smaller.
StrLess(s, t) ==
    \E i \in 1..(Min(Len(s), Len(t)) + 1) :
        /\ \A j \in 1..(i - 1) : s[j] = t[j]
        /\ \/ i > Len(s) /\ i <= Len(t)
           \/ i <= Len(s) /\ i <= Len(t) /\ s[i] < t[i]

StrLeq(s, t) == s = t \/ StrLess(s, t)

Zeros(n) == [i \in 1..n |-> ChZero]

AllDigits(s) == \A i \in 1..Len(s) : IsDigitCh(s[i])

-----------------------------------------------------------------------------
(* math/big.Int, as far as the storage layer uses it *)

RECURSIVE NatDigits(_)
NatDigits(n) == IF n < 10 THEN <<n>> ELSE Append(NatDigits(n \div 10), n % 10)

\* The big integer of a small machine integer.
Big(n) == [neg |-> n < 0, mag |-> NatDigits(IF n < 0 THEN 0 - n ELSE n)]

\* A digit d followed by k digits z: d * 10^k + z * (10^k - 1) / 9.
Wide(d, z, k) == [neg |-> FALSE, mag |-> <<d>> \o [i \in 1..k |-> z]]

\* x < y on the integers the records stand for.
MagLess(a, b) ==
    \/ Len(a) < Len(b)
    \/ /\ Len(a) = Len(b)
       /\ \E i \in 1..Len(a) :
            /\ \A j \in 1..(i - 1) : a[j] = b[j]
            /\ a[i] < b[i]

BigLess(x, y) ==
    CASE x.neg /\ ~y.neg -> TRUE
      [] ~x.neg /\ y.neg -> FALSE
      [] ~x.neg /\ ~y.neg -> MagLess(x.mag, y.mag)
      [] OTHER -> MagLess(y.mag, x.mag)

BigLeq(x, y) == x = y \/ BigLess(x, y)

\* (*big.Int).String(): the decimal digits, "-" first for a negative number.
BigString(x) ==
    LET digits == [i \in 1..Len(x.mag) |-> ChZero + x.mag[i]]
    IN  IF x.neg THEN <<ChMinus>> \o digits ELSE digits

-----------------------------------------------------------------------------
(* util: FormattedBigIntLength, BigIntToPaddedString, ParseBigInt *)

FormattedBigIntLength == 80

paddingSize(x) == FormattedBigIntLength - Len(BigString(x))

\* make([]rune, paddingSize) with a negative size: a run-time panic.
MakePanics(x) == paddingSize(x) < 0

\* A plausible slip: the number's digits with no padding at all.
BigIntToPaddedStringBare(x) == BigString(x)

\* A plausible slip: the padding appended instead of prepended.
BigIntToPaddedStringRight(x) == BigString(x) \o Zeros(paddingSize(x))

\* The result when make does not panic.
BigIntToPaddedString(x) == Zeros(paddingSize(x)) \o BigString(x)

ChPlus == 43

HasSign(s) == Len(s) > 0 /\ s[1] \in {ChMinus, ChPlus}

\* (*big.Int).SetString(s, 10): an optional sign, then one digit or more, and
\* nothing else.
SetStringOk(s) ==
    LET from == IF HasSign(s) THEN 2 ELSE 1
    IN  /\ Len(s) >= from
        /\ \A i \in from..Len(s) : IsDigitCh(s[i])

\* The first position from `from` on that holds no digit, Len(s) + 1 when
\* every byte from there on is a digit.
FirstNonDigit(s, from) ==
    IF \A i \in from..Len(s) : IsDigitCh(s[i]) THEN Len(s) + 1
    ELSE CHOOSE i \in from..Len(s) :
            ~IsDigitCh(s[i]) /\ \A j \in from..(i - 1) : IsDigitCh(s[j])

\* What the receiver holds after SetString: the number read up to the first
\* byte that is no digit (0 when there is none), also when SetString fails.
SetStringValue(s) ==
    LET from == IF HasSign(s) THEN 2 ELSE 1
        stop == FirstNonDigit(s, from)
        zero == \A i \in from..(stop - 1) : s[i] = ChZero
        first == CHOOSE i \in from..(stop - 1) :
                    s[i] # ChZero /\ \A j \in from..(i - 1) : s[j] = ChZero
    IN  IF zero THEN [neg |-> FALSE, mag |-> <<0>>]
        ELSE [neg |-> HasSign(s) /\ s[1] = ChMinus,
              mag |-> [k \in 1..(stop - first) |-> s[first + k - 1] - ChZero]]

ParseBigInt(s) ==
    IF SetStringOk(s) THEN [err |-> FALSE, val |-> SetStringValue(s)]
    ELSE [err |-> TRUE, val |-> Big(0)]

-----------------------------------------------------------------------------
(* The store after table setup: every table empty, every sequence unused *)

\* The goroutines that call setupPostgres.
Procs == {"p1", "p2"}

\* w.storage before any setup.
NilStorage == [by |-> "none", call |-> 0]

\* The DWH before any setup: the mutex free, no storage, no table created
\* in the database, and no goroutine inside setupPostgres.
NewDWH ==
    [mu |-> "free", storage |-> NilStorage, created |-> {},
     calls |-> [p \in Procs |->
                    [pc |-> "idle", next |-> 0, count |-> 0, failed |-> FALSE,
                     err |-> FALSE, before |-> NilStorage]]]

EmptyStore ==
    /\ orders = {}
    /\ deals = {}
    /\ dealConditions = {}
    /\ dealChangeRequests = {}
    /\ dealPayments = {}
    /\ profiles = {}
    /\ validators = {}
    /\ workers = {}
    /\ blacklists = {}
    /\ seqs = [DealConditions |-> 0, Misc |-> 0]
    /\ staleIDs = <<>>
    /\ misc = {}
    /\ dwh = NewDWH
    /\ reply = [op |-> "none"]
    /\ sent = [kind |-> "none"]

-----------------------------------------------------------------------------
(* The padding run: two numbers are padded and the strings compared *)

MaxSmall == 12

PadInputs ==
    {Big(n) : n \in 0..MaxSmall}
        \cup {Wide(d, z, k) : d \in {1, 9}, z \in {0, 9},
                              k \in {FormattedBigIntLength - 2, FormattedBigIntLength - 1,
                                     FormattedBigIntLength}}
        \cup {Big(0 - 1), Big(0 - 10)}

PadInit ==
    /\ pad \in {[x |-> a, y |-> b, sx |-> <<>>, sy |-> <<>>, state |-> "start"] :
                    a \in PadInputs, b \in PadInputs}
    /\ EmptyStore

PadPanic ==
    /\ pad.state = "start"
    /\ MakePanics(pad.x) \/ MakePanics(pad.y)
    /\ pad' = [pad EXCEPT !.state = "panic"]
    /\ UNCHANGED <<tables, others, reply, sent>>

PadBoth ==
    /\ pad.state = "start"
    /\ ~MakePanics(pad.x) /\ ~MakePanics(pad.y)
    /\ pad' = [pad EXCEPT !.sx = BigIntToPaddedString(pad.x),
                          !.sy = BigIntToPaddedString(pad.y),
                          !.state = "done"]
    /\ UNCHANGED <<tables, others, reply, sent>>

PadNext == PadPanic \/ PadBoth

SpecPad == PadInit /\ [][PadNext]_vars

InWidth(x) == ~x.neg /\ Len(x.mag) <= FormattedBigIntLength

\* C1: for non-negative x and y of at most 80 digits, the padded strings
\* compare as the numbers do: x <= y exactly when padded(x) <= padded(y).
C1_PaddedOrder ==
    (pad.state = "done" /\ InWidth(pad.x) /\ InWidth(pad.y)) =>
        (BigLeq(pad.x, pad.y) <=> StrLeq(pad.sx, pad.sy))

\* An 80-digit number and a smaller one of another length were padded.
C1_Witness ==
    /\ pad.state = "done"
    /\ InWidth(pad.x) /\ InWidth(pad.y)
    /\ Len(pad.x.mag) < Len(pad.y.mag)
    /\ Len(pad.y.mag) = FormattedBigIntLength
    /\ pad.x.mag[1] > pad.y.mag[1]
    /\ StrLess(pad.sx, pad.sy)

-----------------------------------------------------------------------------
(* proto: the wrappers of the proto package around util and math/big *)

\* (*pb.BigInt).PaddedString(): util.BigIntToPaddedString of the wrapped number.
PaddedString(b) == BigIntToPaddedString(b)

\* pb.NewBigIntFromString(s): the parsed number, or an error.
NewBigIntFromString(s) == ParseBigInt(s)

Timestamp(n) == [Seconds |-> n]

NilTimestamp == [nil |-> TRUE]

ZeroAddress == "0x0"

-----------------------------------------------------------------------------
(* The SQL engine and the outcome of an operation *)

WriteReply(st) == [op |-> "write", status |-> st]

\* The configured number of benchmark columns.
numBenchmarks == 1

-----------------------------------------------------------------------------
(* Orders: InsertOrder, decodeOrder, GetOrderByID, UpdateOrderStatus,      *)
(* DeleteOrder                                                             *)

\* The argument list of InsertOrder, by the column each argument goes to.
OrderRow(order) ==
    [Id |-> BigString(order.Id),
     CreatedTS |-> order.CreatedTS.Seconds,
     DealID |-> BigString(order.DealID),
     Type |-> order.OrderType,
     Status |-> order.OrderStatus,
     AuthorID |-> order.AuthorID,
     CounterpartyID |-> order.CounterpartyID,
     Duration |-> order.Duration,
     Price |-> PaddedString(order.Price),
     Netflags |-> order.Netflags,
     IdentityLevel |-> order.IdentityLevel,
     Blacklist |-> order.Blacklist,
     Tag |-> order.Tag,
     FrozenSum |-> PaddedString(order.FrozenSum),
     CreatorIdentityLevel |-> order.CreatorIdentityLevel,
     CreatorName |-> order.CreatorName,
     CreatorCountry |-> order.CreatorCountry,
     CreatorCertificates |-> order.CreatorCertificates,
     Benchmarks |-> SubSeq(order.Benchmarks, 1, numBenchmarks)]

\* Building the argument list panics: a number too wide for the padding, or
\* a benchmark vector shorter than the configured count.
OrderArgsPanic(order) ==
    \/ MakePanics(order.Price)
    \/ MakePanics(order.FrozenSum)
    \/ Len(order.Benchmarks) < numBenchmarks

\* INSERT INTO Orders: Id is UNIQUE.
insertOrderFails(row) == \E r \in orders : r.Id = row.Id

InsertOrder(order) ==
    /\ IF OrderArgsPanic(order)
       THEN /\ reply' = WriteReply("panic")
            /\ UNCHANGED <<orders, sent>>
       ELSE IF insertOrderFails(OrderRow(order))
       THEN /\ reply' = WriteReply("error")
            /\ UNCHANGED <<orders, sent>>
       ELSE /\ orders' = orders \cup {OrderRow(order)}
            /\ reply' = WriteReply("ok")
            /\ sent' = [kind |-> "Order", entity |-> order]
    /\ UNCHANGED <<pad, others, deals, dealConditions, dealChangeRequests, dealPayments,
                   profiles, validators, workers, blacklists, seqs>>

\* A numeric column that decodeOrder parses with NewBigIntFromString.
OrderRowParses(row) ==
    /\ ~NewBigIntFromString(row.Price).err
    /\ ~NewBigIntFromString(row.FrozenSum).err
    /\ ~NewBigIntFromString(row.Id).err
    /\ ~NewBigIntFromString(row.DealID).err

decodeOrder(row) ==
    IF ~OrderRowParses(row) THEN [err |-> TRUE]
    ELSE [err |-> FALSE,
          order |->
            [Id |-> NewBigIntFromString(row.Id).val,
             DealID |-> NewBigIntFromString(row.DealID).val,
             OrderType |-> row.Type,
             OrderStatus |-> row.Status,
             AuthorID |-> row.AuthorID,
             CounterpartyID |-> row.CounterpartyID,
             Duration |-> row.Duration,
             Price |-> NewBigIntFromString(row.Price).val,
             Netflags |-> row.Netflags,
             IdentityLevel |-> row.IdentityLevel,
             Blacklist |-> row.Blacklist,
             Tag |-> row.Tag,
             FrozenSum |-> NewBigIntFromString(row.FrozenSum).val,
             Benchmarks |-> row.Benchmarks,
             CreatedTS |-> Timestamp(row.CreatedTS),
             CreatorIdentityLevel |-> row.CreatorIdentityLevel,
             CreatorName |-> row.CreatorName,
             CreatorCountry |-> row.CreatorCountry,
             CreatorCertificates |-> row.CreatorCertificates]]

\* The value GetOrderByID returns: Id is UNIQUE, so at most one row matches.
OrderByID(orderID) ==
    LET found == {r \in orders : r.Id = BigString(orderID)}
    IN  IF found = {} THEN [err |-> TRUE, notFound |-> TRUE]
        ELSE LET d == decodeOrder(CHOOSE r \in found : TRUE)
             IN  IF d.err THEN [err |-> TRUE, notFound |-> FALSE]
                 ELSE [err |-> FALSE, notFound |-> FALSE, order |-> d.order]

GetOrderByID(orderID) ==
    /\ reply' = [op |-> "GetOrderByID", id |-> orderID, res |-> OrderByID(orderID)]
    /\ UNCHANGED <<pad, others, tables, sent>>

UpdateOrderStatus(orderID, status) ==
    /\ orders' = {IF r.Id = BigString(orderID) THEN [r EXCEPT !.Status = status] ELSE r :
                    r \in orders}
    /\ reply' = WriteReply("ok")
    /\ sent' = [kind |-> "none"]
    /\ UNCHANGED <<pad, others, deals, dealConditions, dealChangeRequests, dealPayments,
                   profiles, validators, workers, blacklists, seqs>>

DeleteOrder(orderID) ==
    /\ orders' = {r \in orders : r.Id # BigString(orderID)}
    /\ reply' = WriteReply("ok")
    /\ sent' = [kind |-> "none"]
    /\ UNCHANGED <<pad, others, deals, dealConditions, dealChangeRequests, dealPayments,
                   profiles, validators, workers, blacklists, seqs>>

-----------------------------------------------------------------------------
(* DealChangeRequests: InsertDealChangeRequest, decodeDealChangeRequest,   *)
(* GetDealChangeRequestsByID                                               *)

DealChangeRequestRow(changeRequest) ==
    [Id |-> BigString(changeRequest.Id),
     CreatedTS |-> changeRequest.CreatedTS.Seconds,
     RequestType |-> changeRequest.RequestType,
     Duration |-> changeRequest.Duration,
     Price |-> PaddedString(changeRequest.Price),
     Status |-> changeRequest.Status,
     DealID |-> BigString(changeRequest.DealID)]

\* INSERT INTO DealChangeRequests: Id is UNIQUE, DealID REFERENCES Deals(Id).
insertDealChangeRequestFails(row) ==
    \/ \E r \in dealChangeRequests : r.Id = row.Id
    \/ ~\E d \in deals : d.Id = row.DealID

InsertDealChangeRequest(changeRequest) ==
    /\ IF MakePanics(changeRequest.Price)
       THEN /\ reply' = WriteReply("panic")
            /\ UNCHANGED <<dealChangeRequests, sent>>
       ELSE IF insertDealChangeRequestFails(DealChangeRequestRow(changeRequest))
       THEN /\ reply' = WriteReply("error")
            /\ UNCHANGED <<dealChangeRequests, sent>>
       ELSE /\ dealChangeRequests' =
                    dealChangeRequests \cup {DealChangeRequestRow(changeRequest)}
            /\ reply' = WriteReply("ok")
            /\ sent' = [kind |-> "DealChangeRequest", entity |-> changeRequest]
    /\ UNCHANGED <<pad, others, orders, deals, dealConditions, dealPayments,
                   profiles, validators, workers, blacklists, seqs>>

\* Price goes through SetString with its result ignored; CreatedTS is scanned
\* and not put into the entity.
decodeDealChangeRequest(row) ==
    IF NewBigIntFromString(row.DealID).err \/ NewBigIntFromString(row.Id).err
    THEN [err |-> TRUE]
    ELSE [err |-> FALSE,
          changeRequest |->
            [Id |-> NewBigIntFromString(row.Id).val,
             DealID |-> NewBigIntFromString(row.DealID).val,
             RequestType |-> row.RequestType,
             Duration |-> row.Duration,
             Price |-> SetStringValue(row.Price),
             Status |-> row.Status,
             CreatedTS |-> NilTimestamp]]

\* The value GetDealChangeRequestsByID returns for a deal id: the decoded rows
\* of that deal, or an error when one of them does not decode.
DealChangeRequestsByID(dealID) ==
    LET found == {r \in dealChangeRequests : r.DealID = BigString(dealID)}
    IN  IF \E r \in found : decodeDealChangeRequest(r).err THEN [err |-> TRUE]
        ELSE [err |-> FALSE,
              out |-> {decodeDealChangeRequest(r).changeRequest : r \in found}]

GetDealChangeRequestsByID(dealID) ==
    /\ reply' = [op |-> "GetDealChangeRequestsByID", id |-> dealID,
                 res |-> DealChangeRequestsByID(dealID)]
    /\ UNCHANGED <<pad, others, tables, sent>>

-----------------------------------------------------------------------------
(* Deals: InsertDeal, UpdateDeal, UpdateDealPayout, DeleteDeal, decodeDeal, *)
(* GetDealByID                                                             *)

\* The argument list of InsertDeal, by the column each argument goes to.
DealRow(deal, ask, bid, hasActiveChangeRequests) ==
    [Id |-> BigString(deal.Id),
     SupplierID |-> deal.SupplierID,
     ConsumerID |-> deal.ConsumerID,
     MasterID |-> deal.MasterID,
     AskID |-> BigString(deal.AskID),
     BidID |-> BigString(deal.BidID),
     Duration |-> deal.Duration,
     Price |-> PaddedString(deal.Price),
     StartTime |-> deal.StartTime.Seconds,
     EndTime |-> deal.EndTime.Seconds,
     Status |-> deal.Status,
     BlockedBalance |-> PaddedString(deal.BlockedBalance),
     TotalPayout |-> PaddedString(deal.TotalPayout),
     LastBillTS |-> deal.LastBillTS.Seconds,
     Netflags |-> ask.Netflags,
     AskIdentityLevel |-> ask.IdentityLevel,
     BidIdentityLevel |-> bid.IdentityLevel,
     SupplierCertificates |-> ask.CreatorCertificates,
     ConsumerCertificates |-> bid.CreatorCertificates,
     ActiveChangeRequest |-> hasActiveChangeRequests,
     Benchmarks |-> SubSeq(deal.Benchmarks, 1, numBenchmarks)]

DealArgsPanic(deal) ==
    \/ MakePanics(deal.Price)
    \/ MakePanics(deal.BlockedBalance)
    \/ MakePanics(deal.TotalPayout)
    \/ Len(deal.Benchmarks) < numBenchmarks

\* INSERT INTO Deals: Id is UNIQUE.
insertDealFails(row) == \E r \in deals : r.Id = row.Id

InsertDeal(deal) ==
    LET ask == OrderByID(deal.AskID)
        bid == OrderByID(deal.BidID)
        hasActiveChangeRequests == ~DealChangeRequestsByID(deal.Id).err
    IN
    /\ IF ask.err \/ bid.err
       THEN /\ reply' = WriteReply("error")
            /\ UNCHANGED <<deals, sent>>
       ELSE IF DealArgsPanic(deal)
       THEN /\ reply' = WriteReply("panic")
            /\ UNCHANGED <<deals, sent>>
       ELSE IF insertDealFails(DealRow(deal, ask.order, bid.order, hasActiveChangeRequests))
       THEN /\ reply' = WriteReply("error")
            /\ UNCHANGED <<deals, sent>>
       ELSE /\ deals' = deals \cup
                    {DealRow(deal, ask.order, bid.order, hasActiveChangeRequests)}
            /\ reply' = WriteReply("ok")
            /\ sent' = [kind |-> "Deal", entity |-> deal]
    /\ UNCHANGED <<pad, others, orders, dealConditions, dealChangeRequests, dealPayments,
                   profiles, validators, workers, blacklists, seqs>>

DealUpdatePanics(deal) ==
    \/ MakePanics(deal.Price)
    \/ MakePanics(deal.BlockedBalance)
    \/ MakePanics(deal.TotalPayout)

\* UPDATE Deals SET Duration, Price, StartTime, EndTime, Status,
\* BlockedBalance, TotalPayout, LastBillTS WHERE Id.
updateDeal(r, deal) ==
    [r EXCEPT !.Duration = deal.Duration,
              !.Price = PaddedString(deal.Price),
              !.StartTime = deal.StartTime.Seconds,
              !.EndTime = deal.EndTime.Seconds,
              !.Status = deal.Status,
              !.BlockedBalance = PaddedString(deal.BlockedBalance),
              !.TotalPayout = PaddedString(deal.TotalPayout),
              !.LastBillTS = deal.LastBillTS.Seconds]

UpdateDeal(deal) ==
    /\ IF DealUpdatePanics(deal)
       THEN /\ reply' = WriteReply("panic")
            /\ UNCHANGED <<deals, sent>>
       ELSE /\ deals' = {IF r.Id = BigString(deal.Id) THEN updateDeal(r, deal) ELSE r :
                            r \in deals}
            /\ reply' = WriteReply("ok")
            /\ sent' = [kind |-> "UpdateDeal", entity |-> deal]
    /\ UNCHANGED <<pad, others, orders, dealConditions, dealChangeRequests, dealPayments,
                   profiles, validators, workers, blacklists, seqs>>

\* UPDATE Deals SET TotalPayout, LastBillTS WHERE Id.
updateDealPayout(r, payout, billTS) ==
    [r EXCEPT !.TotalPayout = BigIntToPaddedString(payout), !.LastBillTS = billTS]

UpdateDealPayout(dealID, payout, billTS) ==
    /\ IF MakePanics(payout)
       THEN /\ reply' = WriteReply("panic")
            /\ UNCHANGED <<deals, sent>>
       ELSE /\ deals' = {IF r.Id = BigString(dealID)
                         THEN updateDealPayout(r, payout, billTS) ELSE r : r \in deals}
            /\ reply' = WriteReply("ok")
            /\ sent' = [kind |-> "UpdateDealPayout", id |-> dealID, payout |-> payout]
    /\ UNCHANGED <<pad, others, orders, dealConditions, dealChangeRequests, dealPayments,
                   profiles, validators, workers, blacklists, seqs>>

\* A plausible slip: the three tables declared without ON DELETE CASCADE
\* and without the reference, so that only the Deals row goes.
DeleteDealNoCascade(dealID) ==
    /\ deals' = {r \in deals : r.Id # BigString(dealID)}
    /\ reply' = WriteReply("ok")
    /\ sent' = [kind |-> "none"]
    /\ UNCHANGED <<pad, others, orders, dealConditions, dealChangeRequests,
                   dealPayments, profiles, validators, workers, blacklists, seqs>>

\* DELETE FROM Deals WHERE Id, with ON DELETE CASCADE on the three tables that
\* reference Deals(Id).
DeleteDeal(dealID) ==
    /\ deals' = {r \in deals : r.Id # BigString(dealID)}
    /\ dealConditions' = {r \in dealConditions : r.DealID # BigString(dealID)}
    /\ dealChangeRequests' = {r \in dealChangeRequests : r.DealID # BigString(dealID)}
    /\ dealPayments' = {r \in dealPayments : r.DealID # BigString(dealID)}
    /\ reply' = WriteReply("ok")
    /\ sent' = [kind |-> "none"]
    /\ UNCHANGED <<pad, others, orders, profiles, validators, workers, blacklists, seqs>>

\* Price, BlockedBalance and TotalPayout go through SetString with its result
\* ignored; Id, AskID and BidID through NewBigIntFromString.
decodeDeal(row) ==
    IF \/ NewBigIntFromString(row.Id).err
       \/ NewBigIntFromString(row.AskID).err
       \/ NewBigIntFromString(row.BidID).err
    THEN [err |-> TRUE]
    ELSE [err |-> FALSE,
          deal |->
            [Deal |->
                [Id |-> NewBigIntFromString(row.Id).val,
                 SupplierID |-> row.SupplierID,
                 ConsumerID |-> row.ConsumerID,
                 MasterID |-> row.MasterID,
                 AskID |-> NewBigIntFromString(row.AskID).val,
                 BidID |-> NewBigIntFromString(row.BidID).val,
                 Price |-> SetStringValue(row.Price),
                 Duration |-> row.Duration,
                 StartTime |-> Timestamp(row.StartTime),
                 EndTime |-> Timestamp(row.EndTime),
                 Status |-> row.Status,
                 BlockedBalance |-> SetStringValue(row.BlockedBalance),
                 TotalPayout |-> SetStringValue(row.TotalPayout),
                 LastBillTS |-> Timestamp(row.LastBillTS),
                 Benchmarks |-> row.Benchmarks],
             Netflags |-> row.Netflags,
             AskIdentityLevel |-> row.AskIdentityLevel,
             BidIdentityLevel |-> row.BidIdentityLevel,
             SupplierCertificates |-> row.SupplierCertificates,
             ConsumerCertificates |-> row.ConsumerCertificates,
             ActiveChangeRequest |-> row.ActiveChangeRequest]]

DealByID(dealID) ==
    LET found == {r \in deals : r.Id = BigString(dealID)}
    IN  IF found = {} THEN [err |-> TRUE, notFound |-> TRUE]
        ELSE LET d == decodeDeal(CHOOSE r \in found : TRUE)
             IN  IF d.err THEN [err |-> TRUE, notFound |-> FALSE]
                 ELSE [err |-> FALSE, notFound |-> FALSE, deal |-> d.deal]

GetDealByID(dealID) ==
    /\ reply' = [op |-> "GetDealByID", id |-> dealID, res |-> DealByID(dealID)]
    /\ UNCHANGED <<pad, others, tables, sent>>

-----------------------------------------------------------------------------
(* DealConditions: InsertDealCondition, UpdateDealConditionPayout,         *)
(* decodeDealCondition, GetDealConditions; DealPayments: InsertDealPayment *)

\* The most values a sequence hands out in a run.
MaxSerial == 1

DealConditionRow(id, condition) ==
    [Id |-> id,
     SupplierID |-> condition.SupplierID,
     ConsumerID |-> condition.ConsumerID,
     MasterID |-> condition.MasterID,
     Duration |-> condition.Duration,
     Price |-> PaddedString(condition.Price),
     StartTime |-> condition.StartTime.Seconds,
     EndTime |-> condition.EndTime.Seconds,
     TotalPayout |-> PaddedString(condition.TotalPayout),
     DealID |-> BigString(condition.DealID)]

\* INSERT INTO DealConditions: Id is a BIGSERIAL, drawn from the sequence also
\* when the insert fails; DealID REFERENCES Deals(Id).
InsertDealCondition(condition) ==
    /\ IF MakePanics(condition.Price) \/ MakePanics(condition.TotalPayout)
       THEN /\ reply' = WriteReply("panic")
            /\ UNCHANGED <<dealConditions, seqs, sent>>
       ELSE /\ seqs.DealConditions < MaxSerial
            /\ seqs' = [seqs EXCEPT !.DealConditions = @ + 1]
            /\ IF ~\E d \in deals : d.Id = BigString(condition.DealID)
               THEN /\ reply' = WriteReply("error")
                    /\ UNCHANGED <<dealConditions, sent>>
               ELSE /\ dealConditions' = dealConditions \cup
                            {DealConditionRow(seqs.DealConditions + 1, condition)}
                    /\ reply' = WriteReply("ok")
                    /\ sent' = [kind |-> "DealCondition",
                                entity |-> condition,
                                id |-> seqs.DealConditions + 1]
    /\ UNCHANGED <<pad, others, orders, deals, dealChangeRequests, dealPayments,
                   profiles, validators, workers, blacklists>>

UpdateDealConditionPayout(dealConditionID, payout) ==
    /\ IF MakePanics(payout)
       THEN /\ reply' = WriteReply("panic")
            /\ UNCHANGED <<dealConditions, sent>>
       ELSE /\ dealConditions' =
                    {IF r.Id = dealConditionID
                     THEN [r EXCEPT !.TotalPayout = BigIntToPaddedString(payout)]
                     ELSE r : r \in dealConditions}
            /\ reply' = WriteReply("ok")
            /\ sent' = [kind |-> "UpdateDealConditionPayout",
                        id |-> dealConditionID, payout |-> payout]
    /\ UNCHANGED <<pad, others, orders, deals, dealChangeRequests, dealPayments,
                   profiles, validators, workers, blacklists, seqs>>

\* Price and TotalPayout go through SetString with its result ignored.
decodeDealCondition(row) ==
    IF NewBigIntFromString(row.DealID).err THEN [err |-> TRUE]
    ELSE [err |-> FALSE,
          dealCondition |->
            [Id |-> row.Id,
             SupplierID |-> row.SupplierID,
             ConsumerID |-> row.ConsumerID,
             MasterID |-> row.MasterID,
             Price |-> SetStringValue(row.Price),
             Duration |-> row.Duration,
             StartTime |-> Timestamp(row.StartTime),
             EndTime |-> Timestamp(row.EndTime),
             TotalPayout |-> SetStringValue(row.TotalPayout),
             DealID |-> NewBigIntFromString(row.DealID).val]]

DealPaymentRow(payment) ==
    [BillTS |-> payment.PaymentTS.Seconds,
     PaidAmount |-> PaddedString(payment.PayedAmount),
     DealID |-> BigString(payment.DealID)]

\* INSERT INTO DealPayments: (BillTS, PaidAmount, DealID) is UNIQUE, DealID
\* REFERENCES Deals(Id).
insertDealPaymentFails(row) ==
    \/ row \in dealPayments
    \/ ~\E d \in deals : d.Id = row.DealID

InsertDealPayment(payment) ==
    /\ IF MakePanics(payment.PayedAmount)
       THEN /\ reply' = WriteReply("panic")
            /\ UNCHANGED <<dealPayments, sent>>
       ELSE IF insertDealPaymentFails(DealPaymentRow(payment))
       THEN /\ reply' = WriteReply("error")
            /\ UNCHANGED <<dealPayments, sent>>
       ELSE /\ dealPayments' = dealPayments \cup {DealPaymentRow(payment)}
            /\ reply' = WriteReply("ok")
            /\ sent' = [kind |-> "DealPayment", entity |-> payment]
    /\ UNCHANGED <<pad, others, orders, deals, dealConditions, dealChangeRequests,
                   profiles, validators, workers, blacklists, seqs>>

-----------------------------------------------------------------------------
(* The query builder: ORDER BY, LIMIT/OFFSET and the two queries of runQuery *)

\* Every order in which the database may hand out the rows of S.
Perms(S) ==
    {f \in [1..Cardinality(S) -> S] :
        \A i, j \in 1..Cardinality(S) : i # j => f[i] # f[j]}

\* ORDER BY: the orders of S in which no row comes after a row it sorts
\* before (before is the set of pairs <<a, b>> with a sorting strictly before
\* b); rows that tie come in any order.
Ordered(S, before) ==
    {f \in Perms(S) : \A i, j \in DOMAIN f : i < j => <<f[j], f[i]>> \notin before}

\* A plausible slip: the offset left out of the statement.
builderWithOffsetLimitNoOffset(rows, limit, offset) ==
    LET last == IF limit > 0 THEN Min(Len(rows), limit) ELSE Len(rows)
    IN  SubSeq(rows, 1, last)

\* A plausible slip: the limit 0 handed to the statement as LIMIT 0.
builderWithOffsetLimitZero(rows, limit, offset) ==
    SubSeq(rows, offset + 1, Min(Len(rows), offset + limit))

\* LIMIT is added only when limit > 0 and OFFSET only when offset > 0.
builderWithOffsetLimit(rows, limit, offset) ==
    LET last == IF limit > 0 THEN Min(Len(rows), offset + limit) ELSE Len(rows)
    IN  SubSeq(rows, offset + 1, last)

\* The data query runs with args...; the count query is handed the whole
\* argument slice as its one parameter, which the driver cannot convert, so it
\* fails, and the deferred countRows.Close() then runs on a nil *sql.Rows.
runQuery(withCount, rows) ==
    IF withCount THEN [status |-> "panic"]
    ELSE [status |-> "ok", rows |-> rows, count |-> 0]

\* What a Get returns: the failure of runQuery, a decode error, or the
\* decoded rows and the count.
QueryReply(q, decodeFails, out) ==
    IF q.status # "ok" THEN [status |-> q.status]
    ELSE IF decodeFails THEN [status |-> "error"]
    ELSE [status |-> "ok", out |-> out, count |-> q.count]

\* ORDER BY Id DESC.
IdDesc(S) == {p \in S \X S : p[1].Id > p[2].Id}

GetDealConditions(r) ==
    LET matching == {c \in dealConditions : c.DealID = BigString(r.DealID)}
    IN
    /\ \E sorted \in (IF Len(r.Sortings) = 0 THEN Ordered(matching, IdDesc(matching))
                      ELSE Perms(matching)) :
         LET q == runQuery(r.WithCount, builderWithOffsetLimit(sorted, r.Limit, r.Offset))
         IN  reply' = [op |-> "GetDealConditions", req |-> r,
                       res |-> QueryReply(q,
                           q.status = "ok" /\ \E i \in DOMAIN q.rows :
                               decodeDealCondition(q.rows[i]).err,
                           [i \in DOMAIN q.rows |->
                               decodeDealCondition(q.rows[i]).dealCondition])]
    /\ UNCHANGED <<pad, others, tables, sent>>

-----------------------------------------------------------------------------
(* The codec run: entities are written by the write operations and read    *)
(* back by the by-id reads                                                  *)

\* pb.OrderType and pb.OrderStatus.
BID == 1

ASK == 2

ORDER_ACTIVE == 2

\* An order as the chain watcher hands it to InsertOrder.
BaseOrder ==
    [Id |-> Big(1), CreatedTS |-> Timestamp(5), DealID |-> Big(0),
     OrderType |-> ASK, OrderStatus |-> ORDER_ACTIVE,
     AuthorID |-> "0xA", CounterpartyID |-> ZeroAddress,
     Duration |-> 10, Price |-> Big(7), Netflags |-> 3, IdentityLevel |-> 1,
     Blacklist |-> "", Tag |-> "", FrozenSum |-> Big(7),
     CreatorIdentityLevel |-> 1, CreatorName |-> "", CreatorCountry |-> "",
     CreatorCertificates |-> "", Benchmarks |-> [i \in 1..numBenchmarks |-> 4]]

\* A small number, the widest number that fits, a negative number and the
\* narrowest number that does not fit.
CodecValues ==
    {Big(7), Wide(9, 9, FormattedBigIntLength - 1), Big(0 - 5),
     Wide(1, 0, FormattedBigIntLength)}

\* The values of the operations that come after the deal is in the store.
CodecFew == {Big(7), Big(0 - 5), Wide(1, 0, FormattedBigIntLength)}

\* Order 1 is the ask and order 2 the bid of deal 1.
CodecOrder(id, v) ==
    [BaseOrder EXCEPT !.Id = Big(id),
                      !.OrderType = IF id = 1 THEN ASK ELSE BID,
                      !.AuthorID = IF id = 1 THEN "0xA" ELSE "0xB",
                      !.Price = v, !.FrozenSum = v]

CodecDeal(v) ==
    [Id |-> Big(1), SupplierID |-> "0xA", ConsumerID |-> "0xB", MasterID |-> "0xA",
     AskID |-> Big(1), BidID |-> Big(2), Duration |-> 10, Price |-> v,
     StartTime |-> Timestamp(5), EndTime |-> Timestamp(0), Status |-> 1,
     BlockedBalance |-> v, TotalPayout |-> v, LastBillTS |-> Timestamp(5),
     Benchmarks |-> [i \in 1..numBenchmarks |-> 4]]

CodecDealCondition(v) ==
    [Id |-> 0, SupplierID |-> "0xA", ConsumerID |-> "0xB", MasterID |-> "0xA",
     Duration |-> 10, Price |-> v, StartTime |-> Timestamp(5),
     EndTime |-> Timestamp(0), TotalPayout |-> v, DealID |-> Big(1)]

CodecDealChangeRequest(v) ==
    [Id |-> Big(1), CreatedTS |-> Timestamp(5), RequestType |-> BID,
     Duration |-> 10, Price |-> v, Status |-> 1, DealID |-> Big(1)]

CodecDealPayment(v) ==
    [PaymentTS |-> Timestamp(5), PayedAmount |-> v, DealID |-> Big(1)]

CodecDealConditionsRequest ==
    [DealID |-> Big(1), Limit |-> 0, Offset |-> 0, WithCount |-> FALSE,
     Sortings |-> <<>>]

CodecInit ==
    /\ pad = [x |-> Big(0), y |-> Big(0), sx |-> <<>>, sy |-> <<>>, state |-> "off"]
    /\ EmptyStore

\* The write run: every write operation, with values inside and outside the
\* padded width.
WriteNext ==
    \/ \E v \in CodecValues : InsertOrder(CodecOrder(1, v))
    \/ InsertOrder(CodecOrder(2, Big(7)))
    \/ \E v \in CodecFew : InsertDeal(CodecDeal(v))
    \/ \E v \in CodecFew : UpdateDeal(CodecDeal(v))
    \/ \E v \in CodecFew : UpdateDealPayout(Big(1), v, 5)
    \/ \E v \in CodecFew : InsertDealCondition(CodecDealCondition(v))
    \/ \E id \in 1..MaxSerial, v \in CodecFew : UpdateDealConditionPayout(id, v)
    \/ \E v \in CodecFew : InsertDealChangeRequest(CodecDealChangeRequest(v))
    \/ \E v \in CodecFew : InsertDealPayment(CodecDealPayment(v))

SpecWrite == CodecInit /\ [][WriteNext]_vars

\* A stored numeric string as the specification wants it.
Digits80(s) == Len(s) = FormattedBigIntLength /\ AllDigits(s)

\* Every numeric string the store holds.
StoredNumerics ==
    {r.Price : r \in orders} \cup {r.FrozenSum : r \in orders}
        \cup {r.Price : r \in deals} \cup {r.BlockedBalance : r \in deals}
        \cup {r.TotalPayout : r \in deals}
        \cup {r.Price : r \in dealConditions}
        \cup {r.TotalPayout : r \in dealConditions}
        \cup {r.Price : r \in dealChangeRequests}
        \cup {r.PaidAmount : r \in dealPayments}

LastWritten ==
    CASE sent.kind = "Order" ->
            UNION {{<<sent.entity.Price, r.Price>>,
                    <<sent.entity.FrozenSum, r.FrozenSum>>} :
                   r \in {q \in orders : q.Id = BigString(sent.entity.Id)}}
      [] sent.kind \in {"Deal", "UpdateDeal"} ->
            UNION {{<<sent.entity.Price, r.Price>>,
                    <<sent.entity.BlockedBalance, r.BlockedBalance>>,
                    <<sent.entity.TotalPayout, r.TotalPayout>>} :
                   r \in {q \in deals : q.Id = BigString(sent.entity.Id)}}
      [] sent.kind = "UpdateDealPayout" ->
            {<<sent.payout, r.TotalPayout>> :
                r \in {q \in deals : q.Id = BigString(sent.id)}}
      [] sent.kind = "DealCondition" ->
            UNION {{<<sent.entity.Price, r.Price>>,
                    <<sent.entity.TotalPayout, r.TotalPayout>>} :
                   r \in {q \in dealConditions : q.Id = sent.id}}
      [] sent.kind = "UpdateDealConditionPayout" ->
            {<<sent.payout, r.TotalPayout>> :
                r \in {q \in dealConditions : q.Id = sent.id}}
      [] sent.kind = "DealChangeRequest" ->
            {<<sent.entity.Price, r.Price>> :
                r \in {q \in dealChangeRequests : q.Id = BigString(sent.entity.Id)}}
      [] sent.kind = "DealPayment" ->
            {<<sent.entity.PayedAmount, r.PaidAmount>> :
                r \in {q \in dealPayments :
                        /\ q.BillTS = sent.entity.PaymentTS.Seconds
                        /\ q.DealID = BigString(sent.entity.DealID)
                        /\ SetStringValue(q.PaidAmount).mag = sent.entity.PayedAmount.mag}}
      [] OTHER -> {}

CodecPair == {Big(7), Wide(9, 9, FormattedBigIntLength - 1), Big(0 - 5)}

CodecNext ==
    \/ \E v \in CodecPair : InsertOrder(CodecOrder(1, v))
    \/ InsertOrder(CodecOrder(2, Big(7)))
    \/ \E v \in CodecPair : InsertDeal(CodecDeal(v))
    \/ \E v \in CodecPair : InsertDealCondition(CodecDealCondition(v))
    \/ \E v \in CodecPair : InsertDealChangeRequest(CodecDealChangeRequest(v))
    \/ \E id \in 1..2 : GetOrderByID(Big(id))
    \/ GetDealByID(Big(1))
    \/ GetDealChangeRequestsByID(Big(1))
    \/ GetDealConditions(CodecDealConditionsRequest)

SpecCodec == CodecInit /\ [][CodecNext]_vars

\* The entity a read returned for the entity the last insert wrote, if the
\* last operations were an insert and the read of what it wrote.
ReadBack ==
    CASE reply.op = "GetOrderByID" /\ sent.kind = "Order"
            /\ reply.id = sent.entity.Id ->
            IF reply.res.err THEN {} ELSE {reply.res.order}
      [] reply.op = "GetDealByID" /\ sent.kind = "Deal"
            /\ reply.id = sent.entity.Id ->
            IF reply.res.err THEN {} ELSE {reply.res.deal.Deal}
      [] reply.op = "GetDealConditions" /\ sent.kind = "DealCondition"
            /\ reply.req.DealID = sent.entity.DealID ->
            IF reply.res.status # "ok" THEN {}
            ELSE {[reply.res.out[i] EXCEPT !.Id = 0] :
                    i \in {j \in DOMAIN reply.res.out : reply.res.out[j].Id = sent.id}}
      [] reply.op = "GetDealChangeRequestsByID" /\ sent.kind = "DealChangeRequest"
            /\ reply.id = sent.entity.DealID ->
            IF reply.res.err THEN {}
            ELSE {c \in reply.res.out : c.Id = sent.entity.Id}
      [] OTHER -> {sent.entity}

\* The last insert wrote numbers inside the padded width.
SentInWidth ==
    CASE sent.kind = "Order" -> InWidth(sent.entity.Price) /\ InWidth(sent.entity.FrozenSum)
      [] sent.kind = "Deal" -> /\ InWidth(sent.entity.Price)
                               /\ InWidth(sent.entity.BlockedBalance)
                               /\ InWidth(sent.entity.TotalPayout)
      [] sent.kind = "DealCondition" -> /\ InWidth(sent.entity.Price)
                                        /\ InWidth(sent.entity.TotalPayout)
      [] sent.kind = "DealChangeRequest" -> InWidth(sent.entity.Price)
      [] OTHER -> FALSE

\* C3 as the specification states it: an entity read back after its insert
\* equals, field by field, the entity that was written (here only for
\* entities whose numbers fit the padded width).
C3_RoundTrip == SentInWidth => ReadBack = {sent.entity}

\* The round trip of the three kinds other than DealChangeRequest.
RoundTripOthers == sent.kind # "DealChangeRequest" => C3_RoundTrip

\* A row of the table a read went to holds a numeric string that is no
\* decimal number, and the read returned without an error.
SilentDefault ==
    \/ /\ reply.op = "GetOrderByID"
       /\ ~reply.res.err
       /\ \E r \in orders : r.Id = BigString(reply.id) /\ ~OrderRowParses(r)
    \/ /\ reply.op = "GetDealByID"
       /\ ~reply.res.err
       /\ \E r \in deals :
            /\ r.Id = BigString(reply.id)
            /\ ~(SetStringOk(r.Price) /\ SetStringOk(r.BlockedBalance)
                    /\ SetStringOk(r.TotalPayout))
    \/ /\ reply.op = "GetDealConditions"
       /\ reply.res.status = "ok"
       /\ \E r \in dealConditions :
            /\ r.DealID = BigString(reply.req.DealID)
            /\ ~(SetStringOk(r.Price) /\ SetStringOk(r.TotalPayout))
    \/ /\ reply.op = "GetDealChangeRequestsByID"
       /\ ~reply.res.err
       /\ \E r \in dealChangeRequests :
            r.DealID = BigString(reply.id) /\ ~SetStringOk(r.Price)

\* C4 as the specification states it: decoding a row whose numeric string is
\* no valid decimal number returns an error, never an entity with a defaulted
\* value.
C4_DecodeFails == ~SilentDefault

\* decodeOrder, which checks every parse, does return the error.
OrderDecodeFails == reply.op = "GetOrderByID" => ~SilentDefault

-----------------------------------------------------------------------------
(* The dynamic queries on orders and deals: GetOrders, GetDeals,           *)
(* GetMatchingOrders                                                        *)

\* A request field that is left out (a nil pointer).
Nil == [nil |-> TRUE]

\* (*pb.BigInt).IsZero(): nil or 0.
IsZero(b) == b = Nil \/ b = Big(0)

\* Bitwise OR and NOT on two's-complement integers, as the database computes
\* them.
RECURSIVE BitOr(_, _)
BitOr(a, b) ==
    IF a = 0 THEN b
    ELSE IF b = 0 THEN a
    ELSE IF a = 0 - 1 \/ b = 0 - 1 THEN 0 - 1
    ELSE 2 * BitOr(a \div 2, b \div 2) + Max(a % 2, b % 2)

BitNot(a) == (0 - 1) - a

\* A plausible slip: the two flag comparisons taken for each other.
newNetflagsWhereSwapped(operator, value, Netflags) ==
    CASE operator = "GTE" -> BitOr(value, BitNot(Netflags)) = 0 - 1
      [] operator = "LTE" -> BitOr(Netflags, BitNot(value)) = 0 - 1
      [] OTHER -> Netflags = value

\* "Netflags | ~ ? = -1", "? | ~Netflags = -1" and "Netflags = ?".
newNetflagsWhere(operator, value, Netflags) ==
    CASE operator = "GTE" -> BitOr(Netflags, BitNot(value)) = 0 - 1
      [] operator = "LTE" -> BitOr(value, BitNot(Netflags)) = 0 - 1
      [] OTHER -> Netflags = value

\* The Duration predicates: "Duration <= Max" only for Max > 0, "Duration >=
\* Min" always.
durationWhere(d, Duration) ==
    d # Nil => /\ d.Max > 0 => Duration <= d.Max
               /\ Duration >= d.Min

\* The Price predicates, on the padded strings.
priceWhere(p, Price) ==
    p # Nil => /\ p.Max # Nil => StrLeq(Price, PaddedString(p.Max))
               /\ p.Min # Nil => StrLeq(PaddedString(p.Min), Price)

\* Padding a bound of the price range panics.
pricePanics(p) ==
    p # Nil /\ \/ p.Max # Nil /\ MakePanics(p.Max)
               \/ p.Min # Nil /\ MakePanics(p.Min)

\* The Netflags predicate is added only for a value above 0.
netflagsWhere(n, Netflags) ==
    (n # Nil /\ n.Value > 0) => newNetflagsWhere(n.Operator, n.Value, Netflags)

\* addBenchmarksConditionsWhere: benches is the set of <<benchID, Min, Max>>
\* of the request's map; a bound is a predicate only when it is above 0.
addBenchmarksConditionsWhere(benches, Benchmarks) ==
    \A b \in benches :
        /\ b[3] > 0 => Benchmarks[b[1] + 1] <= b[3]
        /\ b[2] > 0 => Benchmarks[b[1] + 1] >= b[2]

\* A bound above 0 on a benchmark that has no column: the query fails.
benchmarksFail(benches) ==
    \E b \in benches : b[1] >= numBenchmarks /\ (b[2] > 0 \/ b[3] > 0)

\* The columns that hold text; the others of the sortable columns hold
\* integers.
TextColumns ==
    {"Id", "DealID", "AskID", "BidID", "Price", "FrozenSum", "BlockedBalance",
     "TotalPayout"}

ColLess(field, a, b) ==
    IF field \in TextColumns THEN StrLess(a[field], b[field]) ELSE a[field] < b[field]

\* Row a sorts strictly before row b under ORDER BY sortings.
RECURSIVE SortsBefore(_, _, _)
SortsBefore(a, b, sortings) ==
    IF Len(sortings) = 0 THEN FALSE
    ELSE LET s == Head(sortings)
             lt == IF s.Order = "Asc" THEN ColLess(s.Field, a, b)
                   ELSE ColLess(s.Field, b, a)
             gt == IF s.Order = "Asc" THEN ColLess(s.Field, b, a)
                   ELSE ColLess(s.Field, a, b)
         IN  lt \/ (~gt /\ SortsBefore(a, b, Tail(sortings)))

builderWithSortings(S, sortings) ==
    {p \in S \X S : SortsBefore(p[1], p[2], sortings)}

\* The columns of the four tables that take sortings, in the order of their
\* CREATE TABLE (the benchmark columns, which come last, left out).
OrderColumns ==
    <<"Id", "CreatedTS", "DealID", "Type", "Status", "AuthorID", "CounterpartyID",
      "Duration", "Price", "Netflags", "IdentityLevel", "Blacklist", "Tag",
      "FrozenSum", "CreatorIdentityLevel", "CreatorName", "CreatorCountry",
      "CreatorCertificates">>

DealColumns ==
    <<"Id", "SupplierID", "ConsumerID", "MasterID", "AskID", "BidID", "Duration",
      "Price", "StartTime", "EndTime", "Status", "BlockedBalance", "TotalPayout",
      "LastBillTS", "Netflags", "AskIdentityLevel", "BidIdentityLevel",
      "SupplierCertificates", "ConsumerCertificates", "ActiveChangeRequest">>

ProfileColumns ==
    <<"Id", "UserID", "IdentityLevel", "Name", "Country", "IsCorporation",
      "IsProfessional", "Certificates", "ActiveAsks", "ActiveBids">>

ValidatorColumns == <<"Id", "Level">>

\* The Field of a sorting goes into the statement as it is, followed by the
\* name of the Order: ORDER BY takes the text "1" or "2" for the first or the
\* second column of the result, the name of a column for that column, and
\* fails on any other of the texts of the runs ("" here).
orderByColumn(columns, field) ==
    IF \E i \in DOMAIN columns : columns[i] = field THEN field
    ELSE IF field = "1" THEN columns[1]
    ELSE IF field = "2" THEN columns[2]
    ELSE ""

orderByFails(columns, sortings) ==
    \E i \in DOMAIN sortings : orderByColumn(columns, sortings[i].Field) = ""

\* The columns and directions the database sorts by.
orderBy(columns, sortings) ==
    [i \in DOMAIN sortings |->
        [Field |-> orderByColumn(columns, sortings[i].Field),
         Order |-> sortings[i].Order]]

\* Defined, and called by no query: the sortings whose Field is a column.
RECURSIVE filterSortings(_, _)
filterSortings(sortings, columns) ==
    IF Len(sortings) = 0 THEN <<>>
    ELSE IF \E i \in DOMAIN columns : columns[i] = Head(sortings).Field
    THEN <<Head(sortings)>> \o filterSortings(Tail(sortings), columns)
    ELSE filterSortings(Tail(sortings), columns)

\* The WHERE clause of GetOrders: Status = ORDER_ACTIVE always, the others
\* only for a value that is not the zero value.
ordersWhere(r, row) ==
    /\ row.Status = ORDER_ACTIVE
    /\ ~IsZero(r.DealID) => row.DealID = BigString(r.DealID)
    /\ r.Type > 0 => row.Type = r.Type
    /\ r.AuthorID # ZeroAddress => row.AuthorID = r.AuthorID
    /\ r.CounterpartyID # ZeroAddress => row.CounterpartyID = r.CounterpartyID
    /\ durationWhere(r.Duration, row.Duration)
    /\ priceWhere(r.Price, row.Price)
    /\ netflagsWhere(r.Netflags, row.Netflags)
    /\ r.CreatorIdentityLevel > 0 => row.CreatorIdentityLevel >= r.CreatorIdentityLevel
    /\ r.CreatedTS # Nil =>
        /\ (r.CreatedTS.Max # Nil /\ r.CreatedTS.Max.Seconds > 0)
                => row.CreatedTS <= r.CreatedTS.Max.Seconds
        /\ (r.CreatedTS.Min # Nil /\ r.CreatedTS.Min.Seconds > 0)
                => row.CreatedTS >= r.CreatedTS.Min.Seconds
    /\ addBenchmarksConditionsWhere(r.Benchmarks, row.Benchmarks)

\* The rows of a result decoded by decodeOrder.
decodedOrders(q) ==
    QueryReply(q,
        q.status = "ok" /\ \E i \in DOMAIN q.rows : decodeOrder(q.rows[i]).err,
        [i \in DOMAIN q.rows |-> decodeOrder(q.rows[i]).order])

GetOrders(r) ==
    /\ IF pricePanics(r.Price)
       THEN reply' = [op |-> "GetOrders", req |-> r, res |-> [status |-> "panic"]]
       ELSE IF benchmarksFail(r.Benchmarks) \/ orderByFails(OrderColumns, r.Sortings)
       THEN reply' = [op |-> "GetOrders", req |-> r, res |-> [status |-> "error"]]
       ELSE LET matching == {row \in orders : ordersWhere(r, row)}
            IN  \E sorted \in Ordered(matching,
                        builderWithSortings(matching, orderBy(OrderColumns, r.Sortings))) :
                    reply' = [op |-> "GetOrders", req |-> r,
                              res |-> decodedOrders(runQuery(r.WithCount,
                                        builderWithOffsetLimit(sorted, r.Limit, r.Offset)))]
    /\ UNCHANGED <<pad, others, tables, sent>>

\* A plausible slip: the Status predicate added also for the zero value.
dealsWhereStatus(r, row) ==
    /\ row.Status = r.Status
    /\ r.SupplierID # ZeroAddress => row.SupplierID = r.SupplierID
    /\ r.ConsumerID # ZeroAddress => row.ConsumerID = r.ConsumerID
    /\ r.MasterID # ZeroAddress => row.MasterID = r.MasterID
    /\ durationWhere(r.Duration, row.Duration)
    /\ priceWhere(r.Price, row.Price)
    /\ netflagsWhere(r.Netflags, row.Netflags)
    /\ r.AskIdentityLevel > 0 => row.AskIdentityLevel >= r.AskIdentityLevel
    /\ r.BidIdentityLevel > 0 => row.BidIdentityLevel >= r.BidIdentityLevel
    /\ addBenchmarksConditionsWhere(r.Benchmarks, row.Benchmarks)

\* The WHERE clause of GetDeals, but for the AskID and BidID predicates.
dealsWhere(r, row) ==
    /\ r.Status > 0 => row.Status = r.Status
    /\ r.SupplierID # ZeroAddress => row.SupplierID = r.SupplierID
    /\ r.ConsumerID # ZeroAddress => row.ConsumerID = r.ConsumerID
    /\ r.MasterID # ZeroAddress => row.MasterID = r.MasterID
    /\ durationWhere(r.Duration, row.Duration)
    /\ priceWhere(r.Price, row.Price)
    /\ netflagsWhere(r.Netflags, row.Netflags)
    /\ r.AskIdentityLevel > 0 => row.AskIdentityLevel >= r.AskIdentityLevel
    /\ r.BidIdentityLevel > 0 => row.BidIdentityLevel >= r.BidIdentityLevel
    /\ addBenchmarksConditionsWhere(r.Benchmarks, row.Benchmarks)

\* "AskID = ?" and "BidID = ?" are handed the *pb.BigInt itself, a struct the
\* driver cannot convert: the query fails.
dealsArgsFail(r) == ~IsZero(r.AskID) \/ ~IsZero(r.BidID)

decodedDeals(q) ==
    QueryReply(q,
        q.status = "ok" /\ \E i \in DOMAIN q.rows : decodeDeal(q.rows[i]).err,
        [i \in DOMAIN q.rows |-> decodeDeal(q.rows[i]).deal])

GetDeals(r) ==
    /\ IF pricePanics(r.Price)
       THEN reply' = [op |-> "GetDeals", req |-> r, res |-> [status |-> "panic"]]
       ELSE IF \/ dealsArgsFail(r) \/ benchmarksFail(r.Benchmarks)
               \/ orderByFails(DealColumns, r.Sortings)
       THEN reply' = [op |-> "GetDeals", req |-> r, res |-> [status |-> "error"]]
       ELSE LET matching == {row \in deals : dealsWhere(r, row)}
            IN  \E sorted \in Ordered(matching,
                        builderWithSortings(matching, orderBy(DealColumns, r.Sortings))) :
                    reply' = [op |-> "GetDeals", req |-> r,
                              res |-> decodedDeals(runQuery(r.WithCount,
                                        builderWithOffsetLimit(sorted, r.Limit, r.Offset)))]
    /\ UNCHANGED <<pad, others, tables, sent>>

\* A plausible slip: the price comparison of a bid taken for that of an ask.
matchingWhereDearer(order, row) ==
    /\ row.Type = (IF order.OrderType = BID THEN ASK ELSE BID)
    /\ row.Status = ORDER_ACTIVE
    /\ StrLeq(PaddedString(order.Price), row.Price)

\* A plausible slip: the counterparty predicates left out of the clause.
matchingWhereAnyone(order, row) ==
    LET bid == order.OrderType = BID
    IN  /\ row.Type = (IF bid THEN ASK ELSE BID)
        /\ row.Status = ORDER_ACTIVE
        /\ IF bid THEN StrLeq(row.Price, PaddedString(order.Price))
           ELSE StrLeq(PaddedString(order.Price), row.Price)
        /\ IF order.Duration > 0
           THEN IF bid THEN row.Duration >= order.Duration
                ELSE row.Duration <= order.Duration
           ELSE row.Duration = order.Duration
        /\ newNetflagsWhere(IF bid THEN "GTE" ELSE "LTE", order.Netflags, row.Netflags)
        /\ row.IdentityLevel >= order.IdentityLevel
        /\ row.CreatorIdentityLevel <= order.CreatorIdentityLevel
        /\ \A i \in 1..Len(order.Benchmarks) :
            IF bid THEN row.Benchmarks[i] >= order.Benchmarks[i]
            ELSE row.Benchmarks[i] <= order.Benchmarks[i]

\* A plausible slip: the duration predicate left out of the clause.
matchingWhereAnyDuration(order, row) ==
    LET bid == order.OrderType = BID
    IN  /\ row.Type = (IF bid THEN ASK ELSE BID)
        /\ row.Status = ORDER_ACTIVE
        /\ IF bid THEN StrLeq(row.Price, PaddedString(order.Price))
           ELSE StrLeq(PaddedString(order.Price), row.Price)
        /\ order.CounterpartyID # ZeroAddress => row.AuthorID = order.CounterpartyID
        /\ row.CounterpartyID \in {ZeroAddress, order.AuthorID}
        /\ newNetflagsWhere(IF bid THEN "GTE" ELSE "LTE", order.Netflags, row.Netflags)
        /\ row.IdentityLevel >= order.IdentityLevel
        /\ row.CreatorIdentityLevel <= order.CreatorIdentityLevel
        /\ \A i \in 1..Len(order.Benchmarks) :
            IF bid THEN row.Benchmarks[i] >= order.Benchmarks[i]
            ELSE row.Benchmarks[i] <= order.Benchmarks[i]

\* The WHERE clause GetMatchingOrders derives from the reference order.
matchingWhere(order, row) ==
    LET bid == order.OrderType = BID
    IN  /\ row.Type = (IF bid THEN ASK ELSE BID)
        /\ row.Status = ORDER_ACTIVE
        /\ IF bid THEN StrLeq(row.Price, PaddedString(order.Price))
           ELSE StrLeq(PaddedString(order.Price), row.Price)
        /\ IF order.Duration > 0
           THEN IF bid THEN row.Duration >= order.Duration
                ELSE row.Duration <= order.Duration
           ELSE row.Duration = order.Duration
        /\ order.CounterpartyID # ZeroAddress => row.AuthorID = order.CounterpartyID
        /\ row.CounterpartyID \in {ZeroAddress, order.AuthorID}
        /\ newNetflagsWhere(IF bid THEN "GTE" ELSE "LTE", order.Netflags, row.Netflags)
        /\ row.IdentityLevel >= order.IdentityLevel
        /\ row.CreatorIdentityLevel <= order.CreatorIdentityLevel
        /\ \A i \in 1..Len(order.Benchmarks) :
            IF bid THEN row.Benchmarks[i] >= order.Benchmarks[i]
            ELSE row.Benchmarks[i] <= order.Benchmarks[i]

\* A plausible slip: every match list sorted by descending price.
matchingSortingsDesc(order) == <<[Field |-> "Price", Order |-> "Desc"]>>

\* Cheapest ask first for a bid, highest bid first for an ask.
matchingSortings(order) ==
    <<[Field |-> "Price",
       Order |-> IF order.OrderType = BID THEN "Asc" ELSE "Desc"]>>

\* The orders that rows can be listed in for the reference order: those of
\* equal price come in any order.
matchingLists(order, rows) ==
    LET matching == {row \in rows : matchingWhere(order, row)}
    IN  Ordered(matching, builderWithSortings(matching, matchingSortings(order)))

GetMatchingOrders(r) ==
    LET ref == OrderByID(r.Id)
    IN
    /\ IF ref.err
       THEN reply' = [op |-> "GetMatchingOrders", req |-> r, res |-> [status |-> "error"]]
       ELSE \E sorted \in matchingLists(ref.order, orders) :
                    reply' = [op |-> "GetMatchingOrders", req |-> r,
                              res |-> decodedOrders(runQuery(r.WithCount,
                                        builderWithOffsetLimit(sorted, r.Limit, r.Offset)))]
    /\ UNCHANGED <<pad, others, tables, sent>>

-----------------------------------------------------------------------------
(* Profiles, validators, workers and blacklists *)

\* INSERT INTO Profiles (UserID, IdentityLevel, Name, Country, IsCorporation,
\* IsProfessional, Certificates, ActiveAsks, ActiveBids) VALUES ($1, 0, '',
\* '', FALSE, FALSE, $2, $3, $4). The serial Id of the row is left out: no
\* decoder returns it.
ProfileRow(profile) ==
    [UserID |-> profile.UserID,
     IdentityLevel |-> 0,
     Name |-> "",
     Country |-> "",
     IsCorporation |-> FALSE,
     IsProfessional |-> FALSE,
     Certificates |-> profile.Certificates,
     ActiveAsks |-> profile.ActiveAsks,
     ActiveBids |-> profile.ActiveBids]

\* ON CONFLICT (UserID) DO NOTHING: a second profile of a user changes no
\* row and is no error.
InsertProfileUserID(profile) ==
    /\ profiles' = IF \E r \in profiles : r.UserID = profile.UserID
                   THEN profiles
                   ELSE profiles \cup {ProfileRow(profile)}
    /\ reply' = WriteReply("ok")
    /\ sent' = [kind |-> "none"]
    /\ UNCHANGED <<pad, others, orders, deals, dealConditions, dealChangeRequests,
                   dealPayments, validators, workers, blacklists, seqs>>

decodeProfile(row) ==
    [UserID |-> row.UserID,
     IdentityLevel |-> row.IdentityLevel,
     Name |-> row.Name,
     Country |-> row.Country,
     IsCorporation |-> row.IsCorporation,
     IsProfessional |-> row.IsProfessional,
     Certificates |-> row.Certificates,
     ActiveAsks |-> row.ActiveAsks,
     ActiveBids |-> row.ActiveBids,
     IsBlacklisted |-> FALSE]

\* The WHERE clause of GetProfiles: the IdentityLevel predicate is always
\* there. The requests of the runs hold no LIKE wildcard, so that Name LIKE
\* is equality.
profilesWhere(r, row) ==
    /\ r.Role = "Supplier" => row.ActiveAsks >= 1
    /\ r.Role = "Consumer" => row.ActiveBids >= 1
    /\ row.IdentityLevel >= r.IdentityLevel
    /\ r.Country # "" => row.Country = r.Country
    /\ r.Name # "" => row.Name = r.Name

\* With an owner in the blacklist query, the owner is appended to the
\* arguments once more than the statement has parameters: the query fails.
profilesArgsFail(r) ==
    r.BlacklistQuery # Nil /\ r.BlacklistQuery.OwnerID # ZeroAddress

\* BlacklistOption_IncludeAndMark: the profiles that GetBlacklist of the
\* owner lists are marked.
markBlacklisted(r, profile) ==
    IF /\ r.BlacklistQuery # Nil
       /\ r.BlacklistQuery.Option = "IncludeAndMark"
       /\ \E b \in blacklists :
            /\ b.AddeeID = profile.UserID
            /\ r.BlacklistQuery.OwnerID # ZeroAddress
                    => b.AdderID = r.BlacklistQuery.OwnerID
    THEN [profile EXCEPT !.IsBlacklisted = TRUE]
    ELSE profile

GetProfiles(r) ==
    /\ IF profilesArgsFail(r) \/ orderByFails(ProfileColumns, r.Sortings)
       THEN reply' = [op |-> "GetProfiles", req |-> r, res |-> [status |-> "error"]]
       ELSE LET matching == {row \in profiles : profilesWhere(r, row)}
            IN  \E sorted \in Ordered(matching,
                        builderWithSortings(matching, orderBy(ProfileColumns, r.Sortings))) :
                    LET q == runQuery(r.WithCount,
                                builderWithOffsetLimit(sorted, r.Limit, r.Offset))
                    IN  reply' = [op |-> "GetProfiles", req |-> r,
                                  res |-> QueryReply(q, FALSE,
                                    [i \in DOMAIN q.rows |->
                                        markBlacklisted(r, decodeProfile(q.rows[i]))])]
    /\ UNCHANGED <<pad, others, tables, sent>>

\* INSERT INTO Validators VALUES ($1, $2): Id is UNIQUE.
InsertValidator(validator) ==
    /\ IF \E r \in validators : r.Id = validator.Id
       THEN /\ reply' = WriteReply("error")
            /\ UNCHANGED <<validators, sent>>
       ELSE /\ validators' = validators \cup {[Id |-> validator.Id, Level |-> validator.Level]}
            /\ reply' = WriteReply("ok")
            /\ sent' = [kind |-> "none"]
    /\ UNCHANGED <<pad, others, orders, deals, dealConditions, dealChangeRequests,
                   dealPayments, profiles, workers, blacklists, seqs>>

decodeValidator(row) == [Id |-> row.Id, Level |-> row.Level]

\* "Level >= ?", "Level <= ?" or "Level = ?", by opsTranslator.
validatorsWhere(r, row) ==
    r.ValidatorLevel # Nil =>
        CASE r.ValidatorLevel.Operator = "GTE" -> row.Level >= r.ValidatorLevel.Value
          [] r.ValidatorLevel.Operator = "LTE" -> row.Level <= r.ValidatorLevel.Value
          [] OTHER -> row.Level = r.ValidatorLevel.Value

GetValidators(r) ==
    /\ IF orderByFails(ValidatorColumns, r.Sortings)
       THEN reply' = [op |-> "GetValidators", req |-> r, res |-> [status |-> "error"]]
       ELSE LET matching == {row \in validators : validatorsWhere(r, row)}
            IN  \E sorted \in Ordered(matching,
                        builderWithSortings(matching, orderBy(ValidatorColumns, r.Sortings))) :
                    LET q == runQuery(r.WithCount,
                                builderWithOffsetLimit(sorted, r.Limit, r.Offset))
                    IN  reply' = [op |-> "GetValidators", req |-> r,
                                  res |-> QueryReply(q, FALSE,
                                    [i \in DOMAIN q.rows |-> decodeValidator(q.rows[i])])]
    /\ UNCHANGED <<pad, others, tables, sent>>

\* INSERT INTO Workers VALUES ($1, $2, $3) with Confirmed false:
\* (MasterID, WorkerID) is UNIQUE.
InsertWorker(masterID, slaveID) ==
    /\ IF \E r \in workers : r.MasterID = masterID /\ r.WorkerID = slaveID
       THEN /\ reply' = WriteReply("error")
            /\ UNCHANGED <<workers, sent>>
       ELSE /\ workers' = workers \cup
                    {[MasterID |-> masterID, WorkerID |-> slaveID, Confirmed |-> FALSE]}
            /\ reply' = WriteReply("ok")
            /\ sent' = [kind |-> "none"]
    /\ UNCHANGED <<pad, others, orders, deals, dealConditions, dealChangeRequests,
                   dealPayments, profiles, validators, blacklists, seqs>>

decodeWorker(row) ==
    [MasterID |-> row.MasterID, SlaveID |-> row.WorkerID, Confirmed |-> row.Confirmed]

GetWorkers(r) ==
    /\ LET matching == {row \in workers :
                            r.MasterID # ZeroAddress => row.MasterID = r.MasterID}
       IN  \E sorted \in Perms(matching) :
               LET q == runQuery(r.WithCount,
                            builderWithOffsetLimit(sorted, r.Limit, r.Offset))
               IN  reply' = [op |-> "GetWorkers", req |-> r,
                             res |-> QueryReply(q, FALSE,
                                [i \in DOMAIN q.rows |-> decodeWorker(q.rows[i])])]
    /\ UNCHANGED <<pad, others, tables, sent>>

\* INSERT INTO Blacklists VALUES ($1, $2): (AdderID, AddeeID) is UNIQUE.
InsertBlacklistEntry(adderID, addeeID) ==
    /\ IF \E r \in blacklists : r.AdderID = adderID /\ r.AddeeID = addeeID
       THEN /\ reply' = WriteReply("error")
            /\ UNCHANGED <<blacklists, sent>>
       ELSE /\ blacklists' = blacklists \cup {[AdderID |-> adderID, AddeeID |-> addeeID]}
            /\ reply' = WriteReply("ok")
            /\ sent' = [kind |-> "none"]
    /\ UNCHANGED <<pad, others, orders, deals, dealConditions, dealChangeRequests,
                   dealPayments, profiles, validators, workers, seqs>>


\* DELETE FROM Blacklists WHERE AdderID = $1 AND AddeeID = $2: no error when
\* no row is there.
DeleteBlacklistEntry(removerID, removeeID) ==
    /\ blacklists' = {r \in blacklists :
                        ~(r.AdderID = removerID /\ r.AddeeID = removeeID)}
    /\ reply' = WriteReply("ok")
    /\ sent' = [kind |-> "none"]
    /\ UNCHANGED <<pad, others, orders, deals, dealConditions, dealChangeRequests,
                   dealPayments, profiles, validators, workers, seqs>>

\* The reply lists the AddeeID of every row of the result.
GetBlacklist(r) ==
    /\ LET matching == {row \in blacklists :
                            r.OwnerID # ZeroAddress => row.AdderID = r.OwnerID}
       IN  \E sorted \in Perms(matching) :
               LET q == runQuery(r.WithCount,
                            builderWithOffsetLimit(sorted, r.Limit, r.Offset))
               IN  reply' = [op |-> "GetBlacklist", req |-> r,
                             res |-> QueryReply(q, FALSE,
                                [i \in DOMAIN q.rows |-> q.rows[i].AddeeID])]
    /\ UNCHANGED <<pad, others, tables, sent>>

-----------------------------------------------------------------------------
(* The listing run: rows are written to the six tables and each table is   *)
(* listed with a request that leaves out every optional predicate           *)

Range(s) == {s[i] : i \in DOMAIN s}

AnyOrders ==
    [DealID |-> Nil, Type |-> 0, AuthorID |-> ZeroAddress,
     CounterpartyID |-> ZeroAddress, Duration |-> Nil, Price |-> Nil,
     Netflags |-> Nil, CreatorIdentityLevel |-> 0, CreatedTS |-> Nil,
     Benchmarks |-> {}, Sortings |-> <<>>, Limit |-> 0, Offset |-> 0,
     WithCount |-> FALSE]

AnyDeals ==
    [Status |-> 0, SupplierID |-> ZeroAddress, ConsumerID |-> ZeroAddress,
     MasterID |-> ZeroAddress, AskID |-> Nil, BidID |-> Nil, Duration |-> Nil,
     Price |-> Nil, Netflags |-> Nil, AskIdentityLevel |-> 0,
     BidIdentityLevel |-> 0, Benchmarks |-> {}, Sortings |-> <<>>,
     Limit |-> 0, Offset |-> 0, WithCount |-> FALSE]

AnyProfiles ==
    [Role |-> "AnyRole", IdentityLevel |-> 0, Country |-> "", Name |-> "",
     BlacklistQuery |-> Nil, Sortings |-> <<>>, Limit |-> 0, Offset |-> 0,
     WithCount |-> FALSE]

AnyValidators ==
    [ValidatorLevel |-> Nil, Sortings |-> <<>>, Limit |-> 0, Offset |-> 0,
     WithCount |-> FALSE]

AnyWorkers ==
    [MasterID |-> ZeroAddress, Limit |-> 0, Offset |-> 0, WithCount |-> FALSE]

AnyBlacklist ==
    [OwnerID |-> ZeroAddress, Limit |-> 0, Offset |-> 0, WithCount |-> FALSE]

\* Order 1 is an active ask, order 2 a bid that is not active, order 3 an
\* active bid.
ListedOrder(id) ==
    [BaseOrder EXCEPT !.Id = Big(id),
                      !.OrderType = IF id = 1 THEN ASK ELSE BID,
                      !.OrderStatus = IF id = 2 THEN ORDER_ACTIVE - 1 ELSE ORDER_ACTIVE,
                      !.AuthorID = IF id = 1 THEN "0xA" ELSE "0xB"]

\* The deal of orders 1 and 2, closed.
ListedDeal == [CodecDeal(Big(7)) EXCEPT !.Status = 2]

ListedProfile(user) ==
    [UserID |-> user, Certificates |-> "",
     ActiveAsks |-> IF user = "0xA" THEN 1 ELSE 0,
     ActiveBids |-> IF user = "0xA" THEN 0 ELSE 1]

ListedValidator(id) == [Id |-> id, Level |-> IF id = "0xA" THEN 1 ELSE 3]

ListInit == pad = [state |-> "off"] /\ EmptyStore

ListNext ==
    \/ \E id \in 1..3 : InsertOrder(ListedOrder(id))
    \/ InsertDeal(ListedDeal)
    \/ \E user \in {"0xA", "0xB"} : InsertProfileUserID(ListedProfile(user))
    \/ \E id \in {"0xA", "0xB"} : InsertValidator(ListedValidator(id))
    \/ InsertWorker("0xA", "0xB")
    \/ InsertBlacklistEntry("0xA", "0xB")
    \/ GetOrders(AnyOrders)
    \/ GetDeals(AnyDeals)
    \/ GetProfiles(AnyProfiles)
    \/ GetValidators(AnyValidators)
    \/ GetWorkers(AnyWorkers)
    \/ GetBlacklist(AnyBlacklist)

SpecList == ListInit /\ [][ListNext]_vars

\* The reply of a listing holds exactly the values of all.
ListsAll(all) ==
    /\ reply.res.status = "ok"
    /\ Range(reply.res.out) = all
    /\ Len(reply.res.out) = Cardinality(all)

\* What the five listings other than GetOrders return.
ListsOthers ==
    /\ reply.op = "GetDeals" => ListsAll({decodeDeal(r).deal : r \in deals})
    /\ reply.op = "GetProfiles" => ListsAll({decodeProfile(r) : r \in profiles})
    /\ reply.op = "GetValidators" => ListsAll({decodeValidator(r) : r \in validators})
    /\ reply.op = "GetWorkers" => ListsAll({decodeWorker(r) : r \in workers})
    /\ reply.op = "GetBlacklist" => ListsAll({r.AddeeID : r \in blacklists})

\* C5 as the specification states it: a listing with every optional
\* predicate left out returns every row of its table, whatever the status of
\* the rows.
C5_EveryRow ==
    /\ reply.op = "GetOrders" => ListsAll({decodeOrder(r).order : r \in orders})
    /\ ListsOthers

\* C5, amended: with every optional predicate left out, GetDeals,
\* GetProfiles, GetValidators, GetWorkers and GetBlacklist return every row
\* of their table, and GetOrders returns every order whose status is
\* ORDER_ACTIVE and no other order.
C5_EveryActiveOrder ==
    /\ reply.op = "GetOrders" =>
            ListsAll({decodeOrder(r).order : r \in {q \in orders : q.Status = ORDER_ACTIVE}})
    /\ ListsOthers

\* GetOrders has listed the two active orders of a store that also holds an
\* order that is not active and a deal.
C5_Witness ==
    /\ reply.op = "GetOrders"
    /\ Len(reply.res.out) = 2
    /\ \E r \in orders : r.Status # ORDER_ACTIVE
    /\ deals # {}

-----------------------------------------------------------------------------
(* The filter run: orders and deals of several flag sets are written and   *)
(* listed with a flag filter, with a limit and an offset, or with a count   *)

\* The largest flag value of a filter.
MaxFlag == 3

\* The largest limit and the largest offset of a request.
MaxPage == 2

\* Order 1 holds flag 1, order 2 flags 1 and 2; order 3 holds both and is
\* not active.
FilterOrder(id) ==
    [BaseOrder EXCEPT !.Id = Big(id),
                      !.Netflags = IF id = 1 THEN 1 ELSE 3,
                      !.OrderStatus = IF id = 3 THEN ORDER_ACTIVE - 1 ELSE ORDER_ACTIVE]

\* Deal id is made of order id, whose flags it takes.
FilterDeal(id) ==
    [CodecDeal(Big(7)) EXCEPT !.Id = Big(id), !.AskID = Big(id), !.BidID = Big(id)]

FlagOrders(op, v) == [AnyOrders EXCEPT !.Netflags = [Operator |-> op, Value |-> v]]

FlagDeals(op, v) == [AnyDeals EXCEPT !.Netflags = [Operator |-> op, Value |-> v]]

PagedOrders(l, k) == [AnyOrders EXCEPT !.Limit = l, !.Offset = k]

PagedDeals(l, k) == [AnyDeals EXCEPT !.Limit = l, !.Offset = k]

CmpOps == {"GTE", "LTE", "EQ"}

FilterInit == pad = [state |-> "off"] /\ EmptyStore

FilterNext ==
    \/ \E id \in 1..3 : InsertOrder(FilterOrder(id))
    \/ \E id \in 1..2 : InsertDeal(FilterDeal(id))
    \/ \E op \in CmpOps, v \in 0..MaxFlag : GetOrders(FlagOrders(op, v))
    \/ \E op \in CmpOps, v \in 0..MaxFlag : GetDeals(FlagDeals(op, v))
    \/ \E l, k \in 0..MaxPage : GetOrders(PagedOrders(l, k))
    \/ \E l, k \in 0..MaxPage : GetDeals(PagedDeals(l, k))
    \/ \E l \in 0..1 : GetOrders([PagedOrders(l, 0) EXCEPT !.WithCount = TRUE])
    \/ \E l \in 0..1 : GetDeals([PagedDeals(l, 0) EXCEPT !.WithCount = TRUE])

SpecFilter == FilterInit /\ [][FilterNext]_vars

\* Bit i of a flag set, and the flag sets compared bit by bit.
Bit(n, i) == (n \div (2 ^ i)) % 2

FlagBits == 0..(MaxFlag + 1)

Superset(a, b) == \A i \in FlagBits : Bit(b, i) <= Bit(a, i)

\* What a flag filter is to select, by the operator.
FlagsSelected(op, v, Netflags) ==
    CASE op = "GTE" -> Superset(Netflags, v)
      [] op = "LTE" -> Superset(v, Netflags)
      [] OTHER -> Netflags = v

\* The Id column of the rows a listing of orders or deals returned.
ListedIds ==
    IF reply.op = "GetDeals"
    THEN {BigString(d.Deal.Id) : d \in Range(reply.res.out)}
    ELSE {BigString(o.Id) : o \in Range(reply.res.out)}

\* The reply is that of a listing of orders or deals by a flag filter alone.
IsFlagReply ==
    /\ reply.op \in {"GetOrders", "GetDeals"}
    /\ reply.req.Netflags # Nil
    /\ ~reply.req.WithCount

\* The rows a listing returns when it has no flag filter: every deal, every
\* active order.
Unfiltered ==
    IF reply.op = "GetDeals" THEN deals ELSE {q \in orders : q.Status = ORDER_ACTIVE}

\* C6 as the specification states it: for every value, 0 too, the filter
\* returns exactly the rows that the operator selects, here read as those of
\* the rows that the listing returns without the filter.
C6_EveryValue ==
    IsFlagReply =>
        /\ reply.res.status = "ok"
        /\ ListedIds =
            {r.Id : r \in {q \in Unfiltered :
                FlagsSelected(reply.req.Netflags.Operator, reply.req.Netflags.Value,
                              q.Netflags)}}

\* C6, amended: for a value above 0 the filter returns, of the rows the
\* listing returns without it, exactly those the operator selects (supersets
\* of the value for GTE, subsets for LTE, the equal ones otherwise); for the
\* value 0 no filter is applied, whatever the operator.
C6_ValueAboveZero ==
    IsFlagReply =>
        /\ reply.res.status = "ok"
        /\ Len(reply.res.out) = Cardinality(ListedIds)
        /\ ListedIds =
            {r.Id : r \in {q \in Unfiltered :
                reply.req.Netflags.Value > 0 =>
                    FlagsSelected(reply.req.Netflags.Operator,
                                  reply.req.Netflags.Value, q.Netflags)}}

\* An LTE filter of value 1 has returned order 1 alone of a store that holds
\* the two active orders.
C6_Witness ==
    /\ IsFlagReply
    /\ reply.op = "GetOrders"
    /\ reply.req.Netflags = [Operator |-> "LTE", Value |-> 1]
    /\ Cardinality({q \in orders : q.Status = ORDER_ACTIVE}) = 2
    /\ ListedIds = {BigString(Big(1))}

\* The reply is that of a listing by limit and offset alone.
IsPagedReply ==
    /\ reply.op \in {"GetOrders", "GetDeals"}
    /\ reply.req.Netflags = Nil
    /\ ~reply.req.WithCount

\* C9 as the specification states it: limit L and offset K over N rows
\* return max(0, min(L, N - K)) rows, for all L, K and N.
C9_EveryLimit ==
    IsPagedReply =>
        /\ reply.res.status = "ok"
        /\ Len(reply.res.out) =
            Max(0, Min(reply.req.Limit, Cardinality(Unfiltered) - reply.req.Offset))

\* C9, amended: a limit L above 0 and an offset K over N rows return
\* max(0, min(L, N - K)) rows; the limit 0 is no limit and returns
\* max(0, N - K) rows.
C9_LimitAboveZero ==
    IsPagedReply =>
        /\ reply.res.status = "ok"
        /\ Len(reply.res.out) =
            IF reply.req.Limit > 0
            THEN Max(0, Min(reply.req.Limit, Cardinality(Unfiltered) - reply.req.Offset))
            ELSE Max(0, Cardinality(Unfiltered) - reply.req.Offset)
        /\ Range(reply.res.out) \subseteq
            (IF reply.op = "GetDeals" THEN {decodeDeal(r).deal : r \in deals}
             ELSE {decodeOrder(r).order : r \in orders})

\* Limit 1 and offset 1 over two deals have returned one deal.
C9_Witness ==
    /\ IsPagedReply
    /\ reply.op = "GetDeals"
    /\ reply.req.Limit = 1
    /\ reply.req.Offset = 1
    /\ Cardinality(deals) = 2
    /\ Len(reply.res.out) = 1

\* C10 as the specification states it: a listing asked for the count returns
\* the number of rows that pass its predicates, whatever the limit and the
\* offset.
C10_CountIsN ==
    (reply.op \in {"GetOrders", "GetDeals"} /\ reply.req.WithCount) =>
        /\ reply.res.status = "ok"
        /\ reply.res.count = Cardinality(Unfiltered)

\* Without the count, a listing of the run always answers.
ListingAnswers ==
    (reply.op \in {"GetOrders", "GetDeals"} /\ ~reply.req.WithCount) =>
        reply.res.status = "ok"

-----------------------------------------------------------------------------
(* The matching run: one ask and one bid are written, each in one of       *)
(* several variants, and the matches of each are listed                     *)

\* The ask all variants are made from: cheaper than the bid, of its duration,
\* with more flags and a higher benchmark.
BaseAsk ==
    [BaseOrder EXCEPT !.Id = Big(1), !.OrderType = ASK, !.AuthorID = "0xA",
                      !.Price = Big(5), !.FrozenSum = Big(5), !.Netflags = 3,
                      !.Benchmarks = [i \in 1..numBenchmarks |-> 6]]

BaseBid ==
    [BaseOrder EXCEPT !.Id = Big(2), !.OrderType = BID, !.AuthorID = "0xB",
                      !.Price = Big(7), !.Netflags = 1]

\* The variants of the ask: each differs from BaseAsk in one field.
MatchAsks ==
    {BaseAsk,
     [BaseAsk EXCEPT !.Price = Big(7)],
     [BaseAsk EXCEPT !.Price = Big(9)],
     [BaseAsk EXCEPT !.Duration = 5],
     [BaseAsk EXCEPT !.Duration = 0],
     [BaseAsk EXCEPT !.Netflags = 2],
     [BaseAsk EXCEPT !.Benchmarks = [i \in 1..numBenchmarks |-> 3]],
     [BaseAsk EXCEPT !.CounterpartyID = "0xB"],
     [BaseAsk EXCEPT !.CounterpartyID = "0xC"],
     [BaseAsk EXCEPT !.IdentityLevel = 2],
     [BaseAsk EXCEPT !.CreatorIdentityLevel = 2],
     [BaseAsk EXCEPT !.OrderStatus = ORDER_ACTIVE - 1]}

MatchBids ==
    {BaseBid,
     [BaseBid EXCEPT !.Duration = 0],
     [BaseBid EXCEPT !.CounterpartyID = "0xA"],
     [BaseBid EXCEPT !.CounterpartyID = "0xC"],
     [BaseBid EXCEPT !.IdentityLevel = 2],
     [BaseBid EXCEPT !.CreatorIdentityLevel = 2]}

MatchingOrders(id) == [Id |-> Big(id), Limit |-> 0, Offset |-> 0, WithCount |-> FALSE]

MatchInit == pad = [state |-> "off"] /\ EmptyStore

MatchNext ==
    \/ \E ask \in MatchAsks : InsertOrder(ask)
    \/ \E bid \in MatchBids : InsertOrder(bid)
    \/ \E id \in 1..2 : GetMatchingOrders(MatchingOrders(id))

SpecMatch == MatchInit /\ [][MatchNext]_vars

\* The number a stored price reads as.
PriceOf(row) == NewBigIntFromString(row.Price).val

\* An active ask and an active bid that the specification calls compatible:
\* the bid pays the ask's price or more, and the ask offers at least the
\* bid's duration, a superset of its flags and at least its value in every
\* benchmark.
Compatible(ask, bid) ==
    /\ ask.Type = ASK /\ bid.Type = BID
    /\ ask.Status = ORDER_ACTIVE /\ bid.Status = ORDER_ACTIVE
    /\ BigLeq(PriceOf(ask), PriceOf(bid))
    /\ ask.Duration >= bid.Duration
    /\ Superset(ask.Netflags, bid.Netflags)
    /\ \A i \in 1..numBenchmarks : ask.Benchmarks[i] >= bid.Benchmarks[i]

\* What the two queries ask for beyond that.
Agreeable(ask, bid) ==
    /\ bid.Duration = 0 => ask.Duration = 0
    /\ ask.CounterpartyID \in {ZeroAddress, bid.AuthorID}
    /\ bid.CounterpartyID \in {ZeroAddress, ask.AuthorID}
    /\ ask.IdentityLevel = bid.IdentityLevel
    /\ ask.CreatorIdentityLevel = bid.CreatorIdentityLevel

\* The reply is the full match list of the order row.
IsMatchListOf(row) ==
    /\ reply.op = "GetMatchingOrders"
    /\ BigString(reply.req.Id) = row.Id
    /\ reply.req.Limit = 0 /\ reply.req.Offset = 0 /\ ~reply.req.WithCount

\* The reply lists the order row.
Lists(row) ==
    /\ reply.res.status = "ok"
    /\ \E o \in Range(reply.res.out) : o = decodeOrder(row).order

-----------------------------------------------------------------------------
(* The ranking run: asks of several prices are written and deleted beside  *)
(* a bid whose matches are listed                                           *)

\* The prices of asks 1 and 2; ask 3 costs 5 and the bid pays 7.
RankPrices == {Big(3), Big(5), Big(7), Big(9)}

RankAsk(id, price) ==
    [BaseAsk EXCEPT !.Id = Big(id), !.Price = price, !.FrozenSum = price]

RankBid == [BaseBid EXCEPT !.Id = Big(4)]

RankInit == pad = [state |-> "off"] /\ EmptyStore

RankNext ==
    \/ \E id \in 1..2, price \in RankPrices : InsertOrder(RankAsk(id, price))
    \/ InsertOrder(RankAsk(3, Big(5)))
    \/ InsertOrder(RankBid)
    \/ \E id \in 1..2 : DeleteOrder(Big(id))
    \/ GetMatchingOrders(MatchingOrders(4))

SpecRank == RankInit /\ [][RankNext]_vars

\* The store after the price of row x is lowered to p, all else unchanged.
Lowered(x, p) == (orders \ {x}) \cup {[x EXCEPT !.Price = PaddedString(p)]}

\* The place of the row of the Id in a list of rows.
Place(list, id) == CHOOSE i \in DOMAIN list : list[i].Id = id

\* The row of the order at place i of the reply.
RowAt(i) == CHOOSE r \in orders : r.Id = BigString(reply.res.out[i].Id)

\* The reply is the match list of the bid, listed from the store as it is.
IsRankReply ==
    /\ reply.op = "GetMatchingOrders"
    /\ reply.res.status = "ok"

\* The match lists of the bid after the ask at place i costs p.
ListsLowered(i, p) ==
    matchingLists(OrderByID(reply.req.Id).order, Lowered(RowAt(i), p))

\* Another ask of the list costs more than p and less than the ask at place i.
PricedBetween(i, p) ==
    \E j \in DOMAIN reply.res.out :
        /\ BigLess(p, reply.res.out[j].Price)
        /\ BigLess(reply.res.out[j].Price, reply.res.out[i].Price)

\* C8 as the specification states it: after the price of a listed ask is
\* lowered, its place in the match list of the bid is strictly earlier.
C8_StrictlyEarlier ==
    IsRankReply =>
        \A i \in DOMAIN reply.res.out : \A p \in RankPrices :
            BigLess(p, reply.res.out[i].Price) =>
                \A after \in ListsLowered(i, p) : Place(after, RowAt(i).Id) < i

\* C8, amended: after the price of a listed ask is lowered, its place in the
\* match list of the bid is never later than before, and it is strictly
\* earlier when another ask of the list costs more than the new price and
\* less than the old one.
C8_NeverLater ==
    IsRankReply =>
        \A i \in DOMAIN reply.res.out : \A p \in RankPrices :
            BigLess(p, reply.res.out[i].Price) =>
                \A after \in ListsLowered(i, p) :
                    /\ Place(after, RowAt(i).Id) <= i
                    /\ PricedBetween(i, p) => Place(after, RowAt(i).Id) < i

\* The list of three asks holds an ask of price 7 last, behind an ask of a
\* price between 3 and 7: it is strictly earlier once it costs 3.
C8_Witness ==
    /\ IsRankReply
    /\ Len(reply.res.out) = 3
    /\ reply.res.out[3].Price = Big(7)
    /\ PricedBetween(3, Big(3))
    /\ \A after \in ListsLowered(3, Big(3)) : Place(after, RowAt(3).Id) < 3

-----------------------------------------------------------------------------
(* The limit 0, in the filter run *)

\* The decoded rows a listing returns when it has no flag filter.
UnfilteredOut ==
    IF reply.op = "GetDeals" THEN {decodeDeal(r).deal : r \in Unfiltered}
    ELSE {decodeOrder(r).order : r \in Unfiltered}

\* C11: a listing with limit 0 returns every row that passes its filter from
\* the offset on: N - K different rows for an offset K of at most N, none for
\* a larger offset, and no other bound cuts the result.
C11_LimitZeroUnbounded ==
    (IsPagedReply /\ reply.req.Limit = 0) =>
        /\ reply.res.status = "ok"
        /\ Range(reply.res.out) \subseteq UnfilteredOut
        /\ Cardinality(Range(reply.res.out)) = Len(reply.res.out)
        /\ Len(reply.res.out) =
            IF reply.req.Offset <= Cardinality(Unfiltered)
            THEN Cardinality(Unfiltered) - reply.req.Offset
            ELSE 0
        /\ reply.req.Offset = 0 => Range(reply.res.out) = UnfilteredOut

\* GetOrders with limit 0 and offset 1 has returned one of two active orders.
C11_Witness ==
    /\ IsPagedReply
    /\ reply.op = "GetOrders"
    /\ reply.req.Limit = 0
    /\ reply.req.Offset = 1
    /\ Cardinality(Unfiltered) = 2
    /\ Len(reply.res.out) = 1

-----------------------------------------------------------------------------
(* The blacklist run: two profiles are written, two owners add them to and *)
(* remove them from their blacklists, and the profiles are listed by a      *)
(* blacklist query                                                          *)

Owners == {"0xA", "0xB"}

Listed == {"0xB", "0xC"}

BlacklistOptions == {"WithoutMatching", "OnlyMatching", "IncludeAndMark"}

BlacklistProfiles(owner, option) ==
    [AnyProfiles EXCEPT !.BlacklistQuery = [OwnerID |-> owner, Option |-> option]]

BlacklistInit == pad = [state |-> "off"] /\ EmptyStore

BlacklistNext ==
    \/ \E user \in Listed : InsertProfileUserID(ListedProfile(user))
    \/ \E a \in Owners, b \in Listed : InsertBlacklistEntry(a, b)
    \/ \E a \in Owners, b \in Listed : DeleteBlacklistEntry(a, b)
    \/ \E a \in Owners \cup {ZeroAddress}, o \in BlacklistOptions :
            GetProfiles(BlacklistProfiles(a, o))

SpecBlacklist == BlacklistInit /\ [][BlacklistNext]_vars

\* The reply is that of a listing of profiles by the blacklist of an owner.
IsBlacklistReply ==
    /\ reply.op = "GetProfiles"
    /\ reply.req.BlacklistQuery # Nil
    /\ reply.req.BlacklistQuery.OwnerID # ZeroAddress

\* The users of the profiles that the owner of the query has blacklisted.
BlacklistedByOwner ==
    {p.UserID : p \in {q \in profiles :
        \E b \in blacklists : /\ b.AdderID = reply.req.BlacklistQuery.OwnerID
                              /\ b.AddeeID = q.UserID}}

\* C12: after any sequence of InsertBlacklistEntry and DeleteBlacklistEntry,
\* GetProfiles with the blacklist query of an owner and WithoutMatching
\* returns exactly the profiles the owner has not blacklisted, and with
\* OnlyMatching exactly those the owner has blacklisted.
C12_BlacklistFilter ==
    IsBlacklistReply =>
        /\ reply.res.status = "ok"
        /\ reply.req.BlacklistQuery.Option = "WithoutMatching" =>
                {p.UserID : p \in Range(reply.res.out)} =
                    {p.UserID : p \in profiles} \ BlacklistedByOwner
        /\ reply.req.BlacklistQuery.Option = "OnlyMatching" =>
                {p.UserID : p \in Range(reply.res.out)} = BlacklistedByOwner

\* What the code does: a listing by the blacklist of an owner fails, and a
\* blacklist query without an owner lists every profile.
BlacklistQueryFails ==
    /\ IsBlacklistReply => reply.res.status = "error"
    /\ (reply.op = "GetProfiles" /\ ~IsBlacklistReply) =>
            /\ reply.res.status = "ok"
            /\ Len(reply.res.out) = Cardinality(profiles)
            /\ {p.UserID : p \in Range(reply.res.out)} = {p.UserID : p \in profiles}

-----------------------------------------------------------------------------
(* The cascade run: two deals are written and deleted, and rows that       *)
(* reference them, or a deal that is never written, are written             *)

\* Deals 1 and 2 are written, once their ask 1 and their bid 2 are; deal 3
\* never is.
CascadeIds == 1..3

CascadeDeal(id) == [CodecDeal(Big(7)) EXCEPT !.Id = Big(id)]

CascadeDealCondition(id) == [CodecDealCondition(Big(7)) EXCEPT !.DealID = Big(id)]

CascadeDealChangeRequest(id) ==
    [CodecDealChangeRequest(Big(7)) EXCEPT !.Id = Big(id), !.DealID = Big(id)]

CascadeDealPayment(id) == [CodecDealPayment(Big(7)) EXCEPT !.DealID = Big(id)]

CascadeInit == pad = [state |-> "off"] /\ EmptyStore

CascadeNext ==
    \/ \E id \in 1..2 : InsertOrder(CodecOrder(id, Big(7)))
    \/ \E id \in 1..2 : InsertDeal(CascadeDeal(id))
    \/ \E id \in CascadeIds : InsertDealCondition(CascadeDealCondition(id))
    \/ \E id \in CascadeIds : InsertDealChangeRequest(CascadeDealChangeRequest(id))
    \/ \E id \in CascadeIds : InsertDealPayment(CascadeDealPayment(id))
    \/ \E id \in CascadeIds : DeleteDeal(Big(id))

SpecCascade == CascadeInit /\ [][CascadeNext]_vars

\* The DealID column of every row of the three tables that reference Deals.
DependentDealIDs ==
    {r.DealID : r \in dealConditions} \cup {r.DealID : r \in dealChangeRequests}
        \cup {r.DealID : r \in dealPayments}

\* Every dependent row references a deal of the store.
Referential == DependentDealIDs \subseteq {d.Id : d \in deals}

\* C13: in every reachable state every DealCondition, DealChangeRequest and
\* DealPayment row references an existing deal, and after DeleteDeal(d) no row
\* of the three tables has DealID d.
C13_Cascade ==
    /\ []Referential
    /\ [][\A id \in CascadeIds :
            DeleteDeal(Big(id)) => BigString(Big(id)) \notin DependentDealIDs']_vars

\* DeleteDeal has just run, the one number of the DealConditions sequence is
\* used up and no condition is left; deal 2 is still there with its change
\* request and its payment, and nothing is left of deal 1.
C13_Witness ==
    /\ reply = WriteReply("ok")
    /\ sent = [kind |-> "none"]
    /\ seqs.DealConditions = 1
    /\ dealConditions = {}
    /\ {d.Id : d \in deals} = {BigString(Big(2))}
    /\ {r.DealID : r \in dealChangeRequests} = {BigString(Big(2))}
    /\ {r.DealID : r \in dealPayments} = {BigString(Big(2))}

-----------------------------------------------------------------------------
(* The sorting run: two rows are written to each of the four tables that   *)
(* take sortings, and each is listed with sortings whose Field is a column, *)
(* or a text that is no column                                              *)

SortBy(field, order) == [Field |-> field, Order |-> order]

\* Sortings by a column in both directions, and by a text that is no column
\* followed by the column.
SortingsBy(column, texts) ==
    {<<SortBy(column, o)>> : o \in {"Asc", "Desc"}}
        \cup {<<SortBy(t, "Desc"), SortBy(column, "Asc")>> : t \in texts}

SortInit == pad = [state |-> "off"] /\ EmptyStore

SortNext ==
    \/ \E id \in 1..2 : InsertOrder(FilterOrder(id))
    \/ \E id \in 1..2 : InsertDeal(FilterDeal(id))
    \/ \E user \in {"0xA", "0xB"} : InsertProfileUserID(ListedProfile(user))
    \/ \E id \in {"0xA", "0xB"} : InsertValidator(ListedValidator(id))
    \/ \E s \in SortingsBy("Id", {"Nope", "1"}) :
            GetOrders([AnyOrders EXCEPT !.Sortings = s])
    \/ \E s \in SortingsBy("Id", {"Nope", "1"}) :
            GetDeals([AnyDeals EXCEPT !.Sortings = s])
    \/ \E s \in SortingsBy("ActiveAsks", {"Nope"}) :
            GetProfiles([AnyProfiles EXCEPT !.Sortings = s])
    \/ \E s \in SortingsBy("Level", {"Nope", "2"}) :
            GetValidators([AnyValidators EXCEPT !.Sortings = s])

SpecSort == SortInit /\ [][SortNext]_vars

\* The reply is that of a listing by sortings alone.
IsSortReply ==
    /\ reply.op \in {"GetOrders", "GetDeals", "GetProfiles", "GetValidators"}
    /\ Len(reply.req.Sortings) > 0

\* The columns of the table the reply lists.
ColumnsListed ==
    CASE reply.op = "GetOrders" -> OrderColumns
      [] reply.op = "GetDeals" -> DealColumns
      [] reply.op = "GetProfiles" -> ProfileColumns
      [] OTHER -> ValidatorColumns

\* The rows of the table that the listing selects.
RowsListed ==
    CASE reply.op = "GetOrders" -> {q \in orders : q.Status = ORDER_ACTIVE}
      [] reply.op = "GetDeals" -> deals
      [] reply.op = "GetProfiles" -> profiles
      [] OTHER -> validators

\* What the listing returns for a row.
DecodedListed(row) ==
    CASE reply.op = "GetOrders" -> decodeOrder(row).order
      [] reply.op = "GetDeals" -> decodeDeal(row).deal
      [] reply.op = "GetProfiles" -> decodeProfile(row)
      [] OTHER -> decodeValidator(row)

\* Every list the listing may return when it sorts by the sortings.
OutcomesOf(sortings) ==
    {[i \in DOMAIN f |-> DecodedListed(f[i])] :
        f \in Ordered(RowsListed, builderWithSortings(RowsListed, sortings))}

\* A sorting of the request has a Field that is no column of the table.
HasUnknownField ==
    \E i \in DOMAIN reply.req.Sortings :
        \A j \in DOMAIN ColumnsListed : ColumnsListed[j] # reply.req.Sortings[i].Field

\* C14: a listing of GetDeals, GetOrders, GetProfiles or GetValidators with a
\* sorting whose Field is no column of the table is rejected, or returns what
\* it returns without that sorting: the text of the Field is never sorted by.
C14_RejectedOrIgnored ==
    (IsSortReply /\ HasUnknownField) =>
        \/ reply.res.status = "error"
        \/ /\ reply.res.status = "ok"
           /\ reply.res.out \in
                OutcomesOf(filterSortings(reply.req.Sortings, ColumnsListed))

\* What the code does: the statement fails when the database can make
\* nothing of a Field, and sorts by every Field it can make something of.
SortsAsWritten ==
    IsSortReply =>
        IF orderByFails(ColumnsListed, reply.req.Sortings)
        THEN reply.res.status = "error"
        ELSE /\ reply.res.status = "ok"
             /\ reply.res.out \in
                    OutcomesOf(orderBy(ColumnsListed, reply.req.Sortings))

-----------------------------------------------------------------------------
(* The lookup run: an order, a deal and a profile are written and deleted, *)
(* and each is looked up by its id over a connection that works, that      *)
(* fails the query, or that fails while the first row is fetched            *)

\* The queryConn of a lookup: Query returns an error over "failsQuery"; over
\* "failsNext" Query returns rows whose Next() is false and whose Err() holds
\* the error.
Conns == {"up", "failsQuery", "failsNext"}

\* What a lookup returns: the query error wrapped in the name of the
\* statement; "no rows returned" when rows.Next() is false, with no look at
\* rows.Err(); else what the decoder returns.
lookupByID(conn, failed, found, decodeFailed, entity) ==
    IF conn = "failsQuery" THEN [err |-> failed]
    ELSE IF conn = "failsNext" \/ ~found THEN [err |-> "no rows returned"]
    ELSE IF decodeFailed THEN [err |-> "failed to decode"]
    ELSE [err |-> "", entity |-> entity]

GetOrderByIDOver(conn, orderID) ==
    /\ LET row == OrderByID(orderID)
       IN  reply' = [op |-> "GetOrderByID", id |-> orderID, conn |-> conn,
                     found |-> ~row.notFound,
                     res |-> lookupByID(conn, "failed to selectOrderByID",
                                ~row.notFound, row.err,
                                IF row.err THEN Nil ELSE row.order)]
    /\ UNCHANGED <<pad, others, tables, sent>>

GetDealByIDOver(conn, dealID) ==
    /\ LET row == DealByID(dealID)
       IN  reply' = [op |-> "GetDealByID", id |-> dealID, conn |-> conn,
                     found |-> ~row.notFound,
                     res |-> lookupByID(conn, "failed to GetDealDetails",
                                ~row.notFound, row.err,
                                IF row.err THEN Nil ELSE row.deal)]
    /\ UNCHANGED <<pad, others, tables, sent>>

\* SELECT * FROM Profiles WHERE UserID = $1.
GetProfileByIDOver(conn, userID) ==
    /\ LET found == {r \in profiles : r.UserID = userID}
       IN  reply' = [op |-> "GetProfileByID", id |-> userID, conn |-> conn,
                     found |-> found # {},
                     res |-> lookupByID(conn, "failed to selectProfileByID",
                                found # {}, FALSE,
                                IF found = {} THEN Nil
                                ELSE decodeProfile(CHOOSE r \in found : TRUE))]
    /\ UNCHANGED <<pad, others, tables, sent>>

LookupInit == pad = [state |-> "off"] /\ EmptyStore

LookupNext ==
    \/ \E id \in 1..2 : InsertOrder(FilterOrder(id))
    \/ InsertDeal(FilterDeal(1))
    \/ InsertProfileUserID(ListedProfile("0xA"))
    \/ DeleteOrder(Big(1))
    \/ DeleteDeal(Big(1))
    \/ \E conn \in Conns, id \in 1..3 : GetOrderByIDOver(conn, Big(id))
    \/ \E conn \in Conns, id \in 1..2 : GetDealByIDOver(conn, Big(id))
    \/ \E conn \in Conns, user \in {"0xA", "0xB"} : GetProfileByIDOver(conn, user)

SpecLookup == LookupInit /\ [][LookupNext]_vars

IsLookupReply == reply.op \in {"GetOrderByID", "GetDealByID", "GetProfileByID"}

\* C15: a lookup by an id that matches no row returns no entity and the
\* not-found outcome, and a lookup returns the not-found outcome only then,
\* never when the execution of its query failed.
C15_NotFoundDistinct ==
    IsLookupReply =>
        /\ (reply.conn = "up" /\ ~reply.found) =>
                reply.res = [err |-> "no rows returned"]
        /\ reply.res.err = "no rows returned" => reply.conn = "up"

\* What the code does: a lookup over a working connection returns the entity
\* of the id or "no rows returned", a query that fails at once returns the
\* wrapped error, and one that fails at the first row returns "no rows
\* returned".
LookupOutcomes ==
    IsLookupReply =>
        /\ reply.conn = "up" =>
                IF reply.found THEN reply.res.err = ""
                ELSE reply.res = [err |-> "no rows returned"]
        /\ reply.conn = "failsQuery" =>
                reply.res.err \in {"failed to selectOrderByID", "failed to GetDealDetails",
                                   "failed to selectProfileByID"}
        /\ reply.conn = "failsNext" => reply.res = [err |-> "no rows returned"]

-----------------------------------------------------------------------------
(* StaleIDs: StoreStaleID, RemoveStaleID, CheckStaleID                     *)

\* "_", which fmt.Sprintf("%s_%s", entity, id.String()) puts between the two.
ChUnderscore == 95

\* The most rows the StaleIDs table holds in a run.
MaxStale == 3

\* A plausible slip: the two parts of the key with nothing between them.
staleIDKeyBare(id, entity) == entity \o BigString(id)

\* The Id column of the row of an id and an entity.
staleIDKey(id, entity) == entity \o <<ChUnderscore>> \o BigString(id)

\* INSERT INTO StaleIDs VALUES ($1): the table has no key, so that the row is
\* added whatever rows are there.
StoreStaleID(id, entity) ==
    /\ Len(staleIDs) < MaxStale
    /\ staleIDs' = Append(staleIDs, staleIDKey(id, entity))
    /\ reply' = [op |-> "StoreStaleID", id |-> id, entity |-> entity, status |-> "ok"]
    /\ sent' = [kind |-> "none"]
    /\ UNCHANGED <<pad, tables, misc, dwh>>

\* DELETE FROM StaleIDs WHERE Id = $1: every row of the key goes, and no row
\* is no error.
RemoveStaleID(id, entity) ==
    /\ LET Kept(k) == k # staleIDKey(id, entity)
       IN  staleIDs' = SelectSeq(staleIDs, Kept)
    /\ reply' = [op |-> "RemoveStaleID", id |-> id, entity |-> entity, status |-> "ok"]
    /\ sent' = [kind |-> "none"]
    /\ UNCHANGED <<pad, tables, misc, dwh>>

\* SELECT * FROM StaleIDs WHERE Id = $1 returns a row.
isStale(id, entity) ==
    \E i \in DOMAIN staleIDs : staleIDs[i] = staleIDKey(id, entity)

CheckStaleID(id, entity) ==
    /\ reply' = [op |-> "CheckStaleID", id |-> id, entity |-> entity, status |-> "ok",
                 stale |-> isStale(id, entity)]
    /\ UNCHANGED <<pad, tables, others, sent>>

-----------------------------------------------------------------------------
(* The stale run: markers of four pairs are stored, removed and checked    *)

\* The entities "a" and "a1" and the ids 1 and 11: without the "_" the pairs
\* ("a", 11) and ("a1", 1) would have one key.
StalePairs == {Big(1), Big(11)} \X {<<97>>, <<97, ChZero + 1>>}

StaleInit == pad = [state |-> "off"] /\ EmptyStore

StaleNext ==
    \/ \E p \in StalePairs : StoreStaleID(p[1], p[2])
    \/ \E p \in StalePairs : RemoveStaleID(p[1], p[2])
    \/ \E p \in StalePairs : CheckStaleID(p[1], p[2])

SpecStale == StaleInit /\ [][StaleNext]_vars

\* C16: CheckStaleID of a pair answers true exactly when the most recent
\* StoreStaleID or RemoveStaleID of the pair was a StoreStaleID: no pair is
\* stale at first, a StoreStaleID makes its pair stale, a RemoveStaleID makes
\* it not stale, no other call changes the answer for the pair, and
\* CheckStaleID returns that answer.
C16_MostRecentCall ==
    /\ \A p \in StalePairs : ~isStale(p[1], p[2])
    /\ [][\A p \in StalePairs :
            /\ StoreStaleID(p[1], p[2]) => isStale(p[1], p[2])'
            /\ RemoveStaleID(p[1], p[2]) => ~isStale(p[1], p[2])'
            /\ ~(StoreStaleID(p[1], p[2]) \/ RemoveStaleID(p[1], p[2])) =>
                    (isStale(p[1], p[2])' <=> isStale(p[1], p[2]))
            /\ CheckStaleID(p[1], p[2]) =>
                    (reply'.status = "ok" /\ reply'.stale = isStale(p[1], p[2]))]_vars

\* CheckStaleID has answered true for ("a", 11) in a table that holds two
\* rows, none of them of ("a1", 1).
C16_Witness ==
    /\ reply.op = "CheckStaleID"
    /\ reply.id = Big(11) /\ reply.entity = <<97>>
    /\ reply.stale
    /\ Len(staleIDs) = 2
    /\ ~isStale(Big(1), <<97, ChZero + 1>>)

\* The call before this one was the same call of the same pair.
SameAsLast(op, p) == reply.op = op /\ reply.id = p[1] /\ reply.entity = p[2]

\* C17: StoreStaleID and RemoveStaleID are idempotent: the second of two
\* calls in a row with the same pair succeeds and leaves the StaleIDs table
\* as the first call left it.
C17_Idempotent ==
    [][\A p \in StalePairs :
        /\ (SameAsLast("StoreStaleID", p) /\ StoreStaleID(p[1], p[2])) =>
                (reply'.status = "ok" /\ staleIDs' = staleIDs)
        /\ (SameAsLast("RemoveStaleID", p) /\ RemoveStaleID(p[1], p[2])) =>
                (reply'.status = "ok" /\ staleIDs' = staleIDs)]_vars

\* What the code does: the second RemoveStaleID changes nothing, the second
\* StoreStaleID adds one more row of the key, and both succeed.
StoreAddsARow ==
    [][\A p \in StalePairs :
        /\ (SameAsLast("StoreStaleID", p) /\ StoreStaleID(p[1], p[2])) =>
                /\ reply'.status = "ok"
                /\ Len(staleIDs') = Len(staleIDs) + 1
                /\ \A q \in StalePairs : isStale(q[1], q[2])' <=> isStale(q[1], q[2])
        /\ (SameAsLast("RemoveStaleID", p) /\ RemoveStaleID(p[1], p[2])) =>
                (reply'.status = "ok" /\ staleIDs' = staleIDs)]_vars

-----------------------------------------------------------------------------
(* Misc: GetLastKnownBlock, InsertLastKnownBlock, UpdateLastKnownBlock     *)

\* The most rows a run inserts into Misc.
MaxMisc == 3

\* INSERT INTO Misc(LastKnownBlock) VALUES ($1): Id is the next number of the
\* BIGSERIAL, so that every call adds a row.
InsertLastKnownBlock(blockNumber) ==
    /\ seqs.Misc < MaxMisc
    /\ seqs' = [seqs EXCEPT !.Misc = @ + 1]
    /\ misc' = misc \cup {[Id |-> seqs.Misc + 1, LastKnownBlock |-> blockNumber]}
    /\ reply' = [op |-> "InsertLastKnownBlock", status |-> "ok"]
    /\ sent' = [kind |-> "LastKnownBlock", blockNumber |-> blockNumber]
    /\ UNCHANGED <<pad, orders, deals, dealConditions, dealChangeRequests,
                   dealPayments, profiles, validators, workers, blacklists,
                   staleIDs, dwh>>

\* UPDATE Misc SET LastKnownBlock = $1 WHERE Id = 1: no row of Id 1 is no
\* error.
UpdateLastKnownBlock(blockNumber) ==
    /\ misc' = {IF r.Id = 1 THEN [r EXCEPT !.LastKnownBlock = blockNumber] ELSE r :
                    r \in misc}
    /\ reply' = [op |-> "UpdateLastKnownBlock", status |-> "ok"]
    /\ sent' = [kind |-> "LastKnownBlock", blockNumber |-> blockNumber]
    /\ UNCHANGED <<pad, tables, staleIDs, dwh>>

\* SELECT LastKnownBlock FROM Misc WHERE Id = 1.
GetLastKnownBlock ==
    /\ LET found == {r \in misc : r.Id = 1}
       IN  reply' = [op |-> "GetLastKnownBlock",
                     res |-> IF found = {} THEN [err |-> TRUE]
                             ELSE [err |-> FALSE,
                                   lastKnownBlock |->
                                        (CHOOSE r \in found : TRUE).LastKnownBlock]]
    /\ UNCHANGED <<pad, tables, others, sent>>

-----------------------------------------------------------------------------
(* The cursor run: block numbers are inserted, updated and read            *)

BlockNumbers == {5, 7, 9}

CursorInit == pad = [state |-> "off"] /\ EmptyStore

CursorNext ==
    \/ \E n \in BlockNumbers : InsertLastKnownBlock(n)
    \/ \E n \in BlockNumbers : UpdateLastKnownBlock(n)
    \/ GetLastKnownBlock

SpecCursor == CursorInit /\ [][CursorNext]_vars

\* GetLastKnownBlock has returned the block number of the most recent
\* InsertLastKnownBlock or UpdateLastKnownBlock.
ReturnsMostRecent ==
    reply.op = "GetLastKnownBlock" =>
        reply.res = [err |-> FALSE, lastKnownBlock |-> sent.blockNumber]

\* C18: after any sequence of InsertLastKnownBlock and UpdateLastKnownBlock
\* with at least one insert, Misc holds exactly one row and GetLastKnownBlock
\* returns the block number of the most recent of the calls.
C18_SingleRowCursor ==
    seqs.Misc >= 1 => (Cardinality(misc) = 1 /\ ReturnsMostRecent)

\* What the code does: Misc holds one row for every insert, and
\* GetLastKnownBlock returns the block number of the row of Id 1; that is the
\* most recent block number as long as one insert was made.
CursorOfOneInsert ==
    /\ Cardinality(misc) = seqs.Misc
    /\ seqs.Misc = 1 => ReturnsMostRecent
    /\ (seqs.Misc = 0 /\ reply.op = "GetLastKnownBlock") => reply.res = [err |-> TRUE]

-----------------------------------------------------------------------------
(* setupPostgres: the mutex, the statements of setupTables and the         *)
(* replacement of the storage, one step each                                *)

\* The tables of the statements of setupTables, in their order.
SetupTables ==
    <<"Deals", "DealConditions", "DealPayments", "DealChangeRequests", "Orders",
      "Workers", "Blacklists", "Validators", "Certificates", "Profiles",
      "StaleIDs", "Misc">>

\* The most calls of setupPostgres a goroutine makes in a run.
MaxCalls == 2

\* store: the storage the call of the goroutine has made.
Store(p) == [by |-> p, call |-> dwh.calls[p].count]

\* A plausible slip: the storage made and set up without the mutex.
setupPostgresLockNone(p) ==
    /\ dwh.calls[p].pc = "idle"
    /\ dwh.calls[p].count < MaxCalls
    /\ dwh' = [dwh EXCEPT !.mu = p,
                          !.calls[p] = [pc |-> "setup", next |-> 1, count |-> @.count + 1,
                                        failed |-> FALSE, err |-> FALSE,
                                        before |-> dwh.storage]]
    /\ UNCHANGED <<pad, tables, staleIDs, misc, reply, sent>>

\* w.mu.Lock(), which waits until the mutex is free, and
\* store := newPostgresStorage(...).
setupPostgresLock(p) ==
    /\ dwh.calls[p].pc = "idle"
    /\ dwh.calls[p].count < MaxCalls
    /\ dwh.mu = "free"
    /\ dwh' = [dwh EXCEPT !.mu = p,
                          !.calls[p] = [pc |-> "setup", next |-> 1, count |-> @.count + 1,
                                        failed |-> FALSE, err |-> FALSE,
                                        before |-> dwh.storage]]
    /\ UNCHANGED <<pad, tables, staleIDs, misc, reply, sent>>

\* A plausible slip: the error of a statement dropped, and the next one run.
setupTablesExecUnchecked(p, fails) ==
    /\ dwh.calls[p].pc = "setup"
    /\ dwh.calls[p].next <= Len(SetupTables)
    /\ dwh' = [dwh EXCEPT !.created = IF fails THEN @
                                      ELSE @ \cup {SetupTables[dwh.calls[p].next]},
                          !.calls[p].failed = @ \/ fails,
                          !.calls[p].next = @ + 1]
    /\ UNCHANGED <<pad, tables, staleIDs, misc, reply, sent>>

\* One db.Exec of setupTables: CREATE TABLE IF NOT EXISTS makes the table or
\* fails, and setupTables returns at the first that fails, which leaves
\* setupPostgres at its return of the wrapped error.
setupTablesExec(p, fails) ==
    /\ dwh.calls[p].pc = "setup"
    /\ dwh.calls[p].next <= Len(SetupTables)
    /\ dwh' = IF fails
              THEN [dwh EXCEPT !.calls[p].failed = TRUE, !.calls[p].pc = "failed"]
              ELSE [dwh EXCEPT !.created = @ \cup {SetupTables[dwh.calls[p].next]},
                               !.calls[p].next = @ + 1]
    /\ UNCHANGED <<pad, tables, staleIDs, misc, reply, sent>>

\* w.storage = store, once setupTables has returned nil.
setupPostgresInstall(p) ==
    /\ dwh.calls[p].pc = "setup"
    /\ dwh.calls[p].next = Len(SetupTables) + 1
    /\ dwh' = [dwh EXCEPT !.storage = Store(p), !.calls[p].pc = "installed"]
    /\ UNCHANGED <<pad, tables, staleIDs, misc, reply, sent>>

\* return, and the deferred w.mu.Unlock(): the error of setupTables wrapped,
\* or nil.
setupPostgresReturn(p) ==
    /\ dwh.calls[p].pc \in {"failed", "installed"}
    /\ dwh' = [dwh EXCEPT !.mu = "free",
                          !.calls[p].err = (dwh.calls[p].pc = "failed"),
                          !.calls[p].pc = "idle"]
    /\ UNCHANGED <<pad, tables, staleIDs, misc, reply, sent>>

-----------------------------------------------------------------------------
(* The setup run: two goroutines call setupPostgres, and any statement     *)
(* may fail                                                                 *)

SetupInit == pad = [state |-> "off"] /\ EmptyStore

SetupNext ==
    \/ \E p \in Procs : setupPostgresLock(p)
    \/ \E p \in Procs, fails \in BOOLEAN : setupTablesExec(p, fails)
    \/ \E p \in Procs : setupPostgresInstall(p)
    \/ \E p \in Procs : setupPostgresReturn(p)

SpecSetup == SetupInit /\ [][SetupNext]_vars

\* The call of the goroutine has returned.
Returned(p) == dwh.calls[p].pc = "idle" /\ dwh.calls[p].count > 0

\* C19: when a statement of the table setup fails, setupPostgres returns an
\* error and does not install the new storage: the storage of a call with a
\* failed statement is never w.storage, w.storage is as it was before the
\* call until the call returns, and the call returns an error exactly when a
\* statement failed.
C19_FailedSetupInstallsNothing ==
    \A p \in Procs :
        /\ dwh.calls[p].failed => dwh.storage # Store(p)
        /\ dwh.calls[p].pc = "failed" => dwh.storage = dwh.calls[p].before
        /\ Returned(p) => (dwh.calls[p].err <=> dwh.calls[p].failed)
        /\ dwh.storage = Store(p) => dwh.calls[p].next = Len(SetupTables) + 1

\* The second call of p1 has returned an error after its last statement
\* failed, and w.storage is the storage its first call installed.
C19_Witness ==
    /\ Returned("p1")
    /\ dwh.calls["p1"].err
    /\ dwh.calls["p1"].count = 2
    /\ dwh.calls["p1"].next = Len(SetupTables)
    /\ dwh.storage = [by |-> "p1", call |-> 1]
    /\ dwh.calls["p1"].before = dwh.storage

\* C20: setupPostgres holds the mutex from its first statement to its
\* return, on success and on error: a goroutine is inside setupPostgres
\* exactly when it holds the mutex, so that no two calls are inside at once
\* and their steps never interleave, and the mutex is free once the calls
\* have returned.
C20_MutexHeld ==
    /\ \A p \in Procs : dwh.calls[p].pc # "idle" <=> dwh.mu = p
    /\ \A p, q \in Procs :
            (dwh.calls[p].pc # "idle" /\ dwh.calls[q].pc # "idle") => p = q
    /\ (\A p \in Procs : dwh.calls[p].pc = "idle") => dwh.mu = "free"

\* p2 has returned an error and p1, which took the mutex after it, has run
\* half of its statements.
C20_Witness ==
    /\ Returned("p2")
    /\ dwh.calls["p2"].err
    /\ dwh.mu = "p1"
    /\ dwh.calls["p1"].pc = "setup"
    /\ dwh.calls["p1"].next = 7
-----------------------------------------------------------------------------
(* The counterparty, duration and identity predicates of the match list,   *)
(* over the matching run                                                    *)

\* The reply is the full match list of the stored order with this id, read
\* without an error.
IsMatchListFor(ref) ==
    /\ IsMatchListOf(ref)
    /\ reply.res.status = "ok"

\* The order the query takes its predicates from.
Reference(ref) == decodeOrder(ref).order

\* The predicates of the match query other than the two about the
\* counterparty: the opposite type, active, the price, the duration, the
\* flags, the identity levels and the benchmarks.
OtherwiseCompatible(O, row) ==
    LET bid == O.OrderType = BID
    IN  /\ row.Type = (IF bid THEN ASK ELSE BID)
        /\ row.Status = ORDER_ACTIVE
        /\ IF bid THEN BigLeq(PriceOf(row), O.Price) ELSE BigLeq(O.Price, PriceOf(row))
        /\ IF O.Duration = 0 THEN row.Duration = 0
           ELSE IF bid THEN row.Duration >= O.Duration ELSE row.Duration <= O.Duration
        /\ IF bid THEN Superset(row.Netflags, O.Netflags)
           ELSE Superset(O.Netflags, row.Netflags)
        /\ row.IdentityLevel >= O.IdentityLevel
        /\ row.CreatorIdentityLevel <= O.CreatorIdentityLevel
        /\ \A i \in 1..numBenchmarks :
            IF bid THEN row.Benchmarks[i] >= O.Benchmarks[i]
            ELSE row.Benchmarks[i] <= O.Benchmarks[i]

\* C21: in the full match list of a reference order O that names a
\* counterparty, every order is authored by that address; when O names no
\* counterparty, the list holds exactly the otherwise compatible orders
\* whose CounterpartyID is the zero address or O's author.
C21_Counterparty ==
    \A ref \in orders :
        IsMatchListFor(ref) =>
            LET O == Reference(ref)
            IN  /\ O.CounterpartyID # ZeroAddress =>
                    \A c \in Range(reply.res.out) : c.AuthorID = O.CounterpartyID
                /\ O.CounterpartyID = ZeroAddress =>
                    Range(reply.res.out) =
                        {decodeOrder(row).order :
                            row \in {r \in orders :
                                /\ OtherwiseCompatible(O, r)
                                /\ r.CounterpartyID \in {ZeroAddress, O.AuthorID}}}

\* The match list of a bid that names no counterparty is empty beside an
\* otherwise compatible ask that names somebody else than the bid's author.
C21_Witness ==
    \E ask, bid \in orders :
        /\ IsMatchListFor(bid)
        /\ bid.Type = BID /\ bid.CounterpartyID = ZeroAddress
        /\ OtherwiseCompatible(Reference(bid), ask)
        /\ ask.CounterpartyID \notin {ZeroAddress, bid.AuthorID}
        /\ reply.res.out = <<>>
\* C22: every ask in the match list of a bid of Duration d > 0 has a
\* Duration of d or more, every ask in the match list of a bid of Duration 0
\* has Duration 0, and every bid in the match list of an ask of Duration d
\* has a Duration of d or less.
C22_Duration ==
    \A ref \in orders :
        IsMatchListFor(ref) =>
            LET O == Reference(ref)
            IN  \A c \in Range(reply.res.out) :
                    /\ (O.OrderType = BID /\ O.Duration > 0) =>
                            (c.OrderType = ASK /\ c.Duration >= O.Duration)
                    /\ (O.OrderType = BID /\ O.Duration = 0) =>
                            (c.OrderType = ASK /\ c.Duration = 0)
                    /\ O.OrderType = ASK =>
                            (c.OrderType = BID /\ c.Duration <= O.Duration)

\* The match list of a bid of Duration 0 holds the ask of Duration 0, and
\* that of the ask holds the bid.
C22_Witness ==
    \E ask, bid \in orders :
        /\ ask.Type = ASK /\ bid.Type = BID
        /\ ask.Duration = 0 /\ bid.Duration = 0
        /\ \/ IsMatchListFor(bid) /\ Lists(ask)
           \/ IsMatchListFor(ask) /\ Lists(bid)
\* C23: every order C in the match list of a reference order O has a
\* creator of at least the identity level O requires, and O's creator has
\* at least the identity level C requires.
C23_TrustThresholds ==
    \A ref \in orders :
        IsMatchListFor(ref) =>
            LET O == Reference(ref)
            IN  \A C \in Range(reply.res.out) :
                    /\ C.CreatorIdentityLevel >= O.IdentityLevel
                    /\ O.CreatorIdentityLevel >= C.IdentityLevel

\* What the query compares instead: the required level of C with the
\* required level of O, and the creator's level of C with that of O.
LikeLevels ==
    \A ref \in orders :
        IsMatchListFor(ref) =>
            LET O == Reference(ref)
            IN  \A C \in Range(reply.res.out) :
                    /\ C.IdentityLevel >= O.IdentityLevel
                    /\ C.CreatorIdentityLevel <= O.CreatorIdentityLevel
\* C29: matching is symmetric. For every stored ask A and bid B, A is in
\* the full match list of B exactly when B is in the full match list of A.
\* The two lists are those the query gives over the one store.
C29_Symmetric ==
    \A A, B \in orders :
        (A.Type = ASK /\ B.Type = BID /\ IsMatchListFor(B)) =>
            (Lists(A) <=> matchingWhere(Reference(A), B))

\* Among active orders the query is symmetric in the type, the price, the
\* counterparty, the flags and the benchmarks; it is not in the duration and
\* the identity levels.
SymmetricWhenAgreeable ==
    \A A, B \in orders :
        (/\ A.Type = ASK /\ B.Type = BID /\ IsMatchListFor(B)
         /\ A.Status = ORDER_ACTIVE /\ B.Status = ORDER_ACTIVE
         /\ (A.Duration = 0 <=> B.Duration = 0)
         /\ A.IdentityLevel = B.IdentityLevel
         /\ A.CreatorIdentityLevel = B.CreatorIdentityLevel) =>
            (Lists(A) <=> matchingWhere(Reference(A), B))
-----------------------------------------------------------------------------
(* The ActiveChangeRequest flag of a new deal, over the cascade run         *)

\* The rows InsertDeal has just added to Deals.
InsertedDeals == deals' \ deals

\* C24: the ActiveChangeRequest flag InsertDeal stores is true exactly when
\* a DealChangeRequests row of that deal id is there at the time of the
\* insert, and false when none is.
C24_ActiveChangeRequest ==
    [][\A d \in InsertedDeals :
            d.ActiveChangeRequest <=> (\E r \in dealChangeRequests : r.DealID = d.Id)]_vars

\* What InsertDeal stores: the flag is set whenever the query for the change
\* requests returns no error, and no change request of a deal is there
\* before the deal is.
FlagOfEveryInsertSet ==
    [][\A d \in InsertedDeals :
            /\ d.ActiveChangeRequest
            /\ ~\E r \in dealChangeRequests : r.DealID = d.Id]_vars
-----------------------------------------------------------------------------
(* UpdateOrders, UpdateDealsSupplier, UpdateDealsConsumer: a changed        *)
(* profile written to the orders and the deals of its user                  *)

\* The statement gets IdentityLevel, Name, Country, Certificates and the
\* UserID: the four Creator columns of the orders the user authored.
UpdateOrders(profile) ==
    /\ orders' = {IF r.AuthorID = profile.UserID
                  THEN [r EXCEPT !.CreatorIdentityLevel = profile.IdentityLevel,
                                 !.CreatorName = profile.Name,
                                 !.CreatorCountry = profile.Country,
                                 !.CreatorCertificates = profile.Certificates]
                  ELSE r : r \in orders}
    /\ reply' = WriteReply("ok")
    /\ sent' = [kind |-> "none"]
    /\ UNCHANGED <<pad, others, deals, dealConditions, dealChangeRequests, dealPayments,
                   profiles, validators, workers, blacklists, seqs>>

\* The statement gets the Certificates bytes and the UserID: the
\* SupplierCertificates of the deals the user supplies.
UpdateDealsSupplier(profile) ==
    /\ deals' = {IF r.SupplierID = profile.UserID
                 THEN [r EXCEPT !.SupplierCertificates = profile.Certificates]
                 ELSE r : r \in deals}
    /\ reply' = WriteReply("ok")
    /\ sent' = [kind |-> "none"]
    /\ UNCHANGED <<pad, others, orders, dealConditions, dealChangeRequests, dealPayments,
                   profiles, validators, workers, blacklists, seqs>>

\* The ConsumerCertificates of the deals the user consumes.
UpdateDealsConsumer(profile) ==
    /\ deals' = {IF r.ConsumerID = profile.UserID
                 THEN [r EXCEPT !.ConsumerCertificates = profile.Certificates]
                 ELSE r : r \in deals}
    /\ reply' = WriteReply("ok")
    /\ sent' = [kind |-> "none"]
    /\ UNCHANGED <<pad, others, orders, dealConditions, dealChangeRequests, dealPayments,
                   profiles, validators, workers, blacklists, seqs>>

-----------------------------------------------------------------------------
(* The snapshot run: a deal is made of its ask and its bid, and the deal,   *)
(* the orders and the profiles of the two users are written afterwards      *)

\* The changed profile of the supplier 0xA or of the consumer 0xB.
SnapshotProfile(user) ==
    [UserID |-> user, IdentityLevel |-> 2, Name |-> "name", Country |-> "cc",
     Certificates |-> "certs"]

SnapshotUsers == {"0xA", "0xB"}

\* The deal as UpdateDeal gets it later: closed, with other numbers.
SnapshotDealLater ==
    [CodecDeal(Big(9)) EXCEPT !.Status = 2, !.Duration = 5, !.EndTime = Timestamp(7)]

SnapshotInit == pad = [state |-> "off"] /\ EmptyStore

SnapshotNext ==
    \/ \E id \in 1..2 : InsertOrder(CodecOrder(id, Big(7)))
    \/ InsertDeal(CodecDeal(Big(7)))
    \/ UpdateDeal(SnapshotDealLater)
    \/ UpdateDealPayout(Big(1), Big(9), 7)
    \/ \E user \in SnapshotUsers : UpdateDealsSupplier(SnapshotProfile(user))
    \/ \E user \in SnapshotUsers : UpdateDealsConsumer(SnapshotProfile(user))
    \/ \E user \in SnapshotUsers : UpdateOrders(SnapshotProfile(user))
    \/ \E id \in 1..2 : UpdateOrderStatus(Big(id), ORDER_ACTIVE - 1)
    \/ \E id \in 1..2 : DeleteOrder(Big(id))

SpecSnapshot == SnapshotInit /\ [][SnapshotNext]_vars

\* The fields a deal row takes from its ask and its bid.
Snapshot(d) ==
    <<d.Netflags, d.AskIdentityLevel, d.BidIdentityLevel, d.SupplierCertificates,
      d.ConsumerCertificates>>

\* No deal row that stays in the store changes a field it took from its
\* orders.
SnapshotKept == \A d \in deals : \A e \in deals' : e.Id = d.Id => Snapshot(e) = Snapshot(d)

\* C25: Netflags, AskIdentityLevel, BidIdentityLevel, SupplierCertificates
\* and ConsumerCertificates of a deal are a snapshot of the time of
\* InsertDeal: no later write (UpdateDeal, UpdateDealPayout,
\* UpdateDealsSupplier, UpdateDealsConsumer, UpdateOrders, UpdateOrderStatus,
\* DeleteOrder) changes them on an existing deal row.
C25_Snapshot == [][SnapshotKept]_vars

\* Every write other than UpdateDealsSupplier and UpdateDealsConsumer keeps
\* the five fields, and those two keep Netflags and the two identity levels.
SnapshotButCertificates ==
    [][/\ (~\E user \in SnapshotUsers :
                \/ UpdateDealsSupplier(SnapshotProfile(user))
                \/ UpdateDealsConsumer(SnapshotProfile(user))) => SnapshotKept
       /\ \A d \in deals : \A e \in deals' :
            e.Id = d.Id => SubSeq(Snapshot(e), 1, 3) = SubSeq(Snapshot(d), 1, 3)]_vars
-----------------------------------------------------------------------------
(* makeInsertDealQuery, makeInsertOrderQuery: the column names and the      *)
(* placeholders of the two INSERT statements                                *)

NumMaxBenchmarks == 128

\* formatCb of the postgres storage: "$%d" for the last argument, "$%d, "
\* for every other one, with the number argID + 1.
formatCb(argID, lastArg) ==
    IF lastArg THEN "$" \o ToString(argID + 1)
    ELSE "$" \o ToString(argID + 1) \o ", "

\* One column name per benchmark id.
getBenchmarkColumn(benchmarkID) == "Benchmark" \o ToString(benchmarkID)

\* newTablesInfo: the fixed columns, their number, and the fixed columns
\* followed by one column per benchmark.
newTablesInfo(n) ==
    LET benchmarkColumns == [i \in 1..n |-> getBenchmarkColumn(i - 1)]
    IN  [DealColumns |-> DealColumns \o benchmarkColumns,
         NumDealColumns |-> Len(DealColumns),
         OrderColumns |-> OrderColumns \o benchmarkColumns,
         NumOrderColumns |-> Len(OrderColumns)]

\* for i := from; i < to; i++ { placeholders += formatCb(i, i == last) }:
\* the texts of the indices from..to-1 one after the other, put together by
\* halves.
RECURSIVE placeholdersLoop(_, _, _)
placeholdersLoop(from, to, last) ==
    IF from >= to THEN ""
    ELSE IF to = from + 1 THEN formatCb(from, from = last)
    ELSE LET mid == (from + to) \div 2
         IN  placeholdersLoop(from, mid, last) \o placeholdersLoop(mid, to, last)

\* The two loops of makeInsertDealQuery and makeInsertOrderQuery: the first
\* over the fixed columns never passes lastArg, the second over the
\* benchmarks passes it at the index numColumns + n - 1.
placeholders(numColumns, n) ==
    placeholdersLoop(0, numColumns, 0 - 1)
        \o placeholdersLoop(numColumns, numColumns + n, numColumns + n - 1)

\* The two texts makeInsertDealQuery puts into its format: the column names
\* and the placeholders.
makeInsertDealQuery(n) ==
    /\ reply' = [op |-> "makeInsertDealQuery", numBenchmarks |-> n,
                 columns |-> newTablesInfo(n).DealColumns,
                 placeholders |-> placeholders(newTablesInfo(n).NumDealColumns, n)]
    /\ UNCHANGED <<pad, others, tables, sent>>

makeInsertOrderQuery(n) ==
    /\ reply' = [op |-> "makeInsertOrderQuery", numBenchmarks |-> n,
                 columns |-> newTablesInfo(n).OrderColumns,
                 placeholders |-> placeholders(newTablesInfo(n).NumOrderColumns, n)]
    /\ UNCHANGED <<pad, others, tables, sent>>

InsertQueryInit == pad = [state |-> "off"] /\ EmptyStore

InsertQueryNext ==
    \/ \E n \in 0..NumMaxBenchmarks : makeInsertDealQuery(n)
    \/ \E n \in 0..NumMaxBenchmarks : makeInsertOrderQuery(n)

SpecInsertQuery == InsertQueryInit /\ [][InsertQueryNext]_vars

\* "$1, $2, ..., $k": k placeholders numbered in order, ", " between two and
\* none after the last.
RECURSIVE NumberedFrom(_, _)
NumberedFrom(a, b) ==
    IF a > b THEN ""
    ELSE IF a = b THEN "$" \o ToString(a)
    ELSE LET mid == (a + b) \div 2
         IN  NumberedFrom(a, mid) \o ", " \o NumberedFrom(mid + 1, b)

Numbered(k) == NumberedFrom(1, k)

IsInsertQuery == reply.op \in {"makeInsertDealQuery", "makeInsertOrderQuery"}

\* C26: for every benchmark count from 0 to 128 the statement holds as many
\* placeholders as column names, numbered from $1 in order and separated by
\* ", ", with no separator after the last.
C26_Placeholders ==
    IsInsertQuery => reply.placeholders = Numbered(Len(reply.columns))

\* What the two loops give: the numbered placeholders for a benchmark count
\* of 1 or more, and the fixed placeholders followed by a separator for 0.
PlaceholdersOfLoops ==
    IsInsertQuery =>
        /\ Len(reply.columns) =
                reply.numBenchmarks
                    + (IF reply.op = "makeInsertDealQuery" THEN 20 ELSE 18)
        /\ reply.numBenchmarks >= 1 =>
                reply.placeholders = Numbered(Len(reply.columns))
        /\ reply.numBenchmarks = 0 =>
                reply.placeholders = Numbered(Len(reply.columns)) \o ", "
-----------------------------------------------------------------------------
(* The statement of GetProfiles: its numbered placeholders and its          *)
(* arguments                                                                *)

\* The owner of a blacklist query is given.
hasOwner(r) == r.BlacklistQuery # Nil /\ r.BlacklistQuery.OwnerID # ZeroAddress

\* The predicates with a "?" that GetProfiles gives the builder, in order,
\* each with its argument as the text the database gets.
profilesMarks(r) ==
    <<[column |-> "IdentityLevel", value |-> ToString(r.IdentityLevel)]>>
        \o (IF r.Country # "" THEN <<[column |-> "Country", value |-> r.Country]>>
            ELSE <<>>)
        \o (IF r.Name # "" THEN <<[column |-> "Name", value |-> r.Name]>> ELSE <<>>)

\* The statement and the arguments GetProfiles runs. ToSql of the builder
\* numbers its "?" from $1 in order and returns their arguments. The owner
\* query is rendered by a ToSql of its own, so that its one "?" is $1 too;
\* it is put into the statement as text and its argument is dropped. After
\* ToSql the owner is appended to the arguments, whatever the option.
profilesQuery(r) ==
    LET marks == profilesMarks(r)
        subquery == /\ hasOwner(r)
                    /\ r.BlacklistQuery.Option \in {"WithoutMatching", "OnlyMatching"}
    IN  [predicates |->
            [i \in 1..Len(marks) |->
                [column |-> marks[i].column, placeholder |-> i, value |-> marks[i].value]]
            \o (IF subquery
                THEN <<[column |-> "AdderID", placeholder |-> 1,
                        value |-> r.BlacklistQuery.OwnerID]>>
                ELSE <<>>),
         args |-> [i \in 1..Len(marks) |-> marks[i].value]
                    \o (IF hasOwner(r) THEN <<r.BlacklistQuery.OwnerID>> ELSE <<>>)]

\* The numbers of the placeholders of a statement.
Placeholders(q) == {q.predicates[i].placeholder : i \in DOMAIN q.predicates}

-----------------------------------------------------------------------------
(* The statement run: profiles and blacklist entries are written, and the   *)
(* profiles are listed by country, name and blacklist                       *)

StatementProfiles(owner, option, country, name) ==
    [AnyProfiles EXCEPT !.BlacklistQuery = [OwnerID |-> owner, Option |-> option],
                        !.Country = country, !.Name = name]

StatementInit == pad = [state |-> "off"] /\ EmptyStore

StatementNext ==
    \/ \E user \in Listed : InsertProfileUserID(ListedProfile(user))
    \/ \E b \in Listed : InsertBlacklistEntry("0xA", b)
    \/ \E a \in {"0xA", ZeroAddress}, o \in BlacklistOptions,
          country \in {"", "cc"}, name \in {"", "name"} :
            GetProfiles(StatementProfiles(a, o, country, name))

SpecStatement == StatementInit /\ [][StatementNext]_vars

\* The reply is that of a listing of profiles filtered by the blacklist of
\* an owner.
IsFilteredByBlacklist ==
    /\ reply.op = "GetProfiles"
    /\ hasOwner(reply.req)
    /\ reply.req.BlacklistQuery.Option \in {"WithoutMatching", "OnlyMatching"}

\* C27: in the statement GetProfiles runs with a blacklist filter, every
\* numbered placeholder is bound to the value of its own predicate, the
\* placeholder of AdderID gets the owner's address, and there are as many
\* arguments as distinct placeholders.
C27_PlaceholdersBound ==
    IsFilteredByBlacklist =>
        LET q == profilesQuery(reply.req)
        IN  /\ \A i \in DOMAIN q.predicates :
                    /\ q.predicates[i].placeholder \in DOMAIN q.args
                    /\ q.args[q.predicates[i].placeholder] = q.predicates[i].value
            /\ \A i, j \in DOMAIN q.predicates :
                    i # j => q.predicates[i].placeholder # q.predicates[j].placeholder
            /\ Len(q.args) = Cardinality(Placeholders(q))

\* What the statement is: AdderID shares $1 with IdentityLevel and so gets
\* the identity level, the owner is one argument more than the statement has
\* placeholders, and the listing fails. Every other placeholder gets the
\* value of its predicate.
OwnerSharesFirstPlaceholder ==
    /\ IsFilteredByBlacklist =>
        LET q == profilesQuery(reply.req)
            last == q.predicates[Len(q.predicates)]
        IN  /\ last.column = "AdderID" /\ last.placeholder = 1
            /\ q.predicates[1].column = "IdentityLevel"
            /\ q.args[1] = ToString(reply.req.IdentityLevel)
            /\ q.args[Len(q.args)] = reply.req.BlacklistQuery.OwnerID
            /\ Len(q.args) = Cardinality(Placeholders(q)) + 1
            /\ \A i \in 1..(Len(q.predicates) - 1) :
                    q.args[q.predicates[i].placeholder] = q.predicates[i].value
            /\ reply.res.status = "error"
    /\ reply.op = "GetProfiles" =>
        LET q == profilesQuery(reply.req)
        IN  profilesArgsFail(reply.req) <=> Len(q.args) # Cardinality(Placeholders(q))
-----------------------------------------------------------------------------
(* runQuery over a connection: the data query, the count query and the      *)
(* result sets that are open when it returns                                *)

\* The queryConn of runQuery: over "failsQuery" the data query returns an
\* error; over "failsCount" the data query works and the count query returns
\* an error. Over "up" the count query fails as well: it is handed the
\* argument slice as one parameter.
QueryConns == {"up", "failsQuery", "failsCount"}

\* What runQuery returns and which result sets it leaves open. After a
\* failed count query countRows is nil: the deferred countRows.Close() runs
\* on it when the error is returned and panics, and rows, the open result
\* set of the data query, is neither closed nor returned.
runQueryOver(conn, withCount, rows) ==
    IF conn = "failsQuery"
    THEN [status |-> "error", err |-> "data query failed", open |-> {}]
    ELSE IF ~withCount
    THEN [status |-> "ok", err |-> "", open |-> {"rows"}, rows |-> rows, count |-> 0]
    ELSE [status |-> runQuery(withCount, rows).status, err |-> "",
          open |-> {"rows"}]

\* SELECT * FROM Validators, with or without the count.
RunQuery(conn, withCount) ==
    /\ \E rows \in Perms(validators) :
            reply' = [op |-> "runQuery", conn |-> conn, withCount |-> withCount,
                      res |-> runQueryOver(conn, withCount, rows)]
    /\ UNCHANGED <<pad, others, tables, sent>>

-----------------------------------------------------------------------------
(* The count run: validators are written and listed by runQuery over the    *)
(* three connections                                                        *)

CountValidators == {"0xA", "0xB", "0xC", "0xD"}

CountInit == pad = [state |-> "off"] /\ EmptyStore

CountNext ==
    \/ \E id \in CountValidators : InsertValidator(ListedValidator(id))
    \/ \E conn \in QueryConns, withCount \in BOOLEAN : RunQuery(conn, withCount)

SpecCount == CountInit /\ [][CountNext]_vars

\* The reply is that of a runQuery whose data query worked and whose count
\* query failed.
IsFailedCount ==
    /\ reply.op = "runQuery"
    /\ reply.conn # "failsQuery"
    /\ reply.withCount

\* C28: when the count query fails after the data query worked, runQuery
\* returns an error that wraps the failure, does not panic, and leaves the
\* result set of the data query closed.
C28_CountFailureReturned ==
    IsFailedCount =>
        /\ reply.res.status = "error"
        /\ reply.res.err = "count query failed"
        /\ "rows" \notin reply.res.open

\* What runQuery does: a failed count query ends in a panic with the result
\* set of the data query open; a failed data query is returned wrapped with
\* nothing open; without the count the open rows go to the caller.
CountFailurePanics ==
    reply.op = "runQuery" =>
        /\ IsFailedCount =>
                (reply.res.status = "panic" /\ reply.res.open = {"rows"})
        /\ reply.conn = "failsQuery" =>
                /\ reply.res.status = "error"
                /\ reply.res.err = "data query failed"
                /\ reply.res.open = {}
        /\ (reply.conn # "failsQuery" /\ ~reply.withCount) =>
                /\ reply.res.status = "ok"
                /\ reply.res.open = {"rows"}
                /\ Range(reply.res.rows) = validators
-----------------------------------------------------------------------------
(* The short vector run: orders and a deal are written with benchmark       *)
(* vectors of fewer, as many and more values than the configured count      *)

\* The lengths of the benchmark vectors of the run: numBenchmarks is 1.
VectorLens == 0..2

VectorOrder(id, len) ==
    [CodecOrder(id, Big(7)) EXCEPT !.Benchmarks = [i \in 1..len |-> 4]]

VectorDeal(len) == [CodecDeal(Big(7)) EXCEPT !.Benchmarks = [i \in 1..len |-> 4]]

VectorInit == pad = [state |-> "off"] /\ EmptyStore

VectorNext ==
    \/ \E id \in 1..3, len \in VectorLens : InsertOrder(VectorOrder(id, len))
    \/ \E len \in VectorLens : InsertDeal(VectorDeal(len))
    \/ \E id \in 1..3 : DeleteOrder(Big(id))
    \/ DeleteDeal(Big(1))

SpecVector == VectorInit /\ [][VectorNext]_vars

ShortLens == {len \in VectorLens : len < numBenchmarks}

\* C30: InsertOrder and InsertDeal, given an entity whose benchmark vector
\* holds fewer values than the configured count, return an error and leave
\* the store unchanged; they never panic on the length mismatch.
C30_ShortVectorError ==
    [][\A len \in ShortLens :
            /\ \A id \in 1..3 :
                    InsertOrder(VectorOrder(id, len)) =>
                        (reply'.status = "error" /\ UNCHANGED tables)
            /\ InsertDeal(VectorDeal(len)) =>
                        (reply'.status = "error" /\ UNCHANGED tables)]_vars

\* What the two do: the store is unchanged, InsertOrder panics at the index
\* past the end of the vector, and InsertDeal panics there once it has read
\* its ask and its bid, and returns the error of the read when one of them is
\* not in the store. A vector of the configured count or more is written.
ShortVectorPanics ==
    [][/\ \A len \in ShortLens :
            /\ \A id \in 1..3 :
                    InsertOrder(VectorOrder(id, len)) =>
                        (reply'.status = "panic" /\ UNCHANGED tables)
            /\ InsertDeal(VectorDeal(len)) =>
                    /\ UNCHANGED tables
                    /\ reply'.status =
                            IF OrderByID(Big(1)).err \/ OrderByID(Big(2)).err
                            THEN "error" ELSE "panic"
       /\ \A len \in VectorLens \ ShortLens : \A id \in 1..3 :
            InsertOrder(VectorOrder(id, len)) => reply'.status # "panic"]_vars
==========================================================================
